---- MODULE Spec2Model ----
(***************************************************************************)
(* algo-jit: the instrumentation-and-trace pipeline.                       *)
(*                                                                         *)
(*   instrumenter  source text -> source text with __trace.* calls added   *)
(*   executor      runs the instrumented text in a vm context against a    *)
(*                 fresh __trace object, under a wall-clock timeout        *)
(*   cli handler   file:changed -> instrument -> execute -> broadcast      *)
(*   server        retains currentTrace and replays it to new clients      *)
(*                                                                         *)
(* Source text is modelled as the sequence of its top-level statements;    *)
(* a statement is a record and stands for its own text (getText()).        *)
(***************************************************************************)
EXTENDS Integers, Sequences, FiniteSets, TLC

VARIABLES
  source,            \* content of the file:changed event being handled
  pc,                \* position of the file:changed handler
  instrumentResult,  \* InstrumentResult returned by instrument()
  code,              \* text handed to vm.runInNewContext
  ip,                \* next statement of code the vm executes (0: not compiled yet)
  bindings,          \* the context's let/const bindings
  heap,              \* the arrays allocated by the running script
  events,            \* sandbox.__trace.events
  eventId,           \* sandbox.__trace.eventId
  traceStart,        \* sandbox.__trace.startTime
  now,               \* Date.now()
  vmStart,           \* the time vm.runInNewContext was entered
  result,            \* ExecutionResult returned by execute()
  calls,             \* history: the calls the current handler invocation made
  clients,           \* VisualizationServer.clients
  currentTrace,      \* VisualizationServer.currentTrace
  outbox,            \* per socket, the messages sent to it
  sockState,         \* per socket: "new", "open", "closing", "errored" or "closed"
  runs,              \* number of file:changed events handled so far
  lastCompleted,     \* history: the trace of the last run that completed normally
  project,           \* CodeInstrumenter.project: per file path, the text of its source file
  lastInstrument,    \* history: the last instrument() call on the instance and its result
  debounceTimers,    \* FileWatcher.debounceTimers: per file path, when its timer is due
  lastNotified,      \* history: per file path, the time of its last add/change notification
  bursts,            \* history: per file path, the number of bursts of notifications
  notifications,     \* history: per file path, the number of notifications
  timers,            \* the setTimeout timers that are set and have not run
  reading,           \* per file path, the reads in flight (each: the notification it answers)
  watchEvents,       \* history: the file:changed and file:error events the watcher emitted
  heapAtEmit,        \* history: per event of the run, the arrays as they were when it was emitted
  random,            \* what the host's Math.random() returns during the run
  hostConsole,       \* number of lines written to the host's console by scripts
  previousRun,       \* history: code and result of the run before the current one
  vizEvents,         \* visualizer: events (useWebSocket state)
  vizError,          \* visualizer: error
  vizIndex,          \* visualizer: currentEventIndex
  received,          \* history: number of messages the visualizer received
  lastMessage,       \* history: the last message the visualizer received
  isPlaying,         \* visualizer: isPlaying
  playIntervalRef,   \* visualizer: playIntervalRef.current and the length its callback closed over
  connected,         \* visualizer: connected
  wsState,           \* visualizer: the WebSocket: "connecting", "open", "failed" or "closed"
  watcher,           \* FileWatcher.watcher: "null", "open", or "closing" while stop() awaits close()
  watchCalls         \* history: the outcomes of the watch() calls made after start-up

handlerVars == <<source, pc, instrumentResult, result, calls, runs>>
sandboxVars == <<code, ip, bindings, heap, events, eventId, traceStart, vmStart,
                 heapAtEmit, random>>
serverVars == <<clients, currentTrace, outbox, sockState, lastCompleted>>
instrumenterVars == <<project, lastInstrument>>
watcherVars == <<debounceTimers, timers, reading, lastNotified, bursts, notifications,
                watchEvents, watcher, watchCalls>>
hostVars == <<hostConsole>>
historyVars == <<previousRun>>
clientVars == <<vizEvents, vizError, vizIndex, received, lastMessage,
                isPlaying, playIntervalRef, connected, wsState>>
pipelineVars == <<handlerVars, sandboxVars, serverVars, hostVars, historyVars>>
vars == <<handlerVars, sandboxVars, serverVars, now, instrumenterVars, watcherVars,
          hostVars, historyVars, clientVars>>

(***************************************************************************)
(* Bounds of the model.                                                    *)
(***************************************************************************)
MaxLen == 3        \* statements per source text
ClockStep == 2500  \* milliseconds one passage of time adds to Date.now()
MaxRuns == 2       \* file:changed events per behaviour of the pipeline
LiveLen == 2       \* statements per source text under the fair specification
InstrLen == 1      \* statements per text handed to one CodeInstrumenter instance
MaxInstrCalls == 3 \* instrument() calls on one CodeInstrumenter instance
WatchStep == 150   \* milliseconds one passage of time adds while watching
MaxNotifications == 3 \* add/change notifications per file path
WatchHorizon == 600 \* the watcher's clock is followed up to this time
MaxMessages == 3   \* messages one visualizer page receives
MaxBroadcasts == 3 \* broadcasts of the server under socket events
MaxWatchCalls == 2 \* watch() calls after start-up
MaxTraceLen == 3   \* events in a trace the visualizer receives

(***************************************************************************)
(* Program constants.                                                      *)
(***************************************************************************)
DefaultTimeout == 5000

\* the sandbox's Math is the host's: Math.random() is one of these in a run
RandomValues == {3, 4}
DebounceMs == 300

ArrNames == {"a", "b"}
VarNames == {"a", "b", "x"}

(***************************************************************************)
(* Values of the running script.  Every value is a tagged record:          *)
(*   [k |-> "int", n]   a number          [k |-> "ref", r]  an array object *)
(*   [k |-> "undef"]    undefined         [k |-> "str", ..] a string        *)
(*   [k |-> "arr", elems]  a plain-data copy of an array (JSON round trip)  *)
(***************************************************************************)
IntV(n) == [k |-> "int", n |-> n]
RefV(r) == [k |-> "ref", r |-> r]
UndefV == [k |-> "undef"]
Unbound == [k |-> "unbound"]

(***************************************************************************)
(* Expressions and statements of the source language.                      *)
(***************************************************************************)
Lit(n) == [e |-> "lit", n |-> n]
Elem(arr, idx) == [e |-> "elem", arr |-> arr, idx |-> idx]
Name(id) == [e |-> "name", id |-> id]
Plus(of, n) == [e |-> "plus", of |-> of, n |-> n]
PostInc(id) == [e |-> "postinc", id |-> id]
RandomCall == [e |-> "random"]
StoreExpr(arr, idx, rhs) == [e |-> "store", arr |-> arr, idx |-> idx, rhs |-> rhs]

ArrayInit(elems) == [i |-> "array", elems |-> elems]
NumInit(n) == [i |-> "num", n |-> n]
Declarator(name, init) == [name |-> name, init |-> init]

VarStmt(decls) == [s |-> "var", decls |-> decls]
AssignElem(arr, idx, rhs) == [s |-> "assign", lhs |-> Elem(arr, idx), rhs |-> rhs]
AssignId(id, rhs) == [s |-> "assign", lhs |-> Name(id), rhs |-> rhs]
Destructure(lhs, rhs) == [s |-> "destructure", lhs |-> lhs, rhs |-> rhs]
ThrowStmt == [s |-> "throw", value |-> "error"]
ThrowNullProtoStmt == [s |-> "throw", value |-> "nullproto"]
SpinStmt == [s |-> "spin"]
GarbageStmt == [s |-> "garbage"]
EmitStmt == [s |-> "call", fn |-> "emit", name |-> "custom"]
ConsoleLogStmt == [s |-> "log"]

\* the calls the instrumenter inserts
DeclareCall(name) == [s |-> "call", fn |-> "declare", name |-> name, arg |-> Name(name)]
AssignCall(name) == [s |-> "call", fn |-> "assign", name |-> name, arg |-> Name(name)]
ArrayWriteCall(name, idx, arg) ==
  [s |-> "call", fn |-> "arrayWrite", name |-> name, index |-> idx, arg |-> arg]

(***************************************************************************)
(* The statements source texts are drawn from.                             *)
(***************************************************************************)
StmtList == <<
  VarStmt(<<Declarator("a", ArrayInit(<<2, 1>>))>>),              \* const a = [2, 1];
  VarStmt(<<Declarator("b", ArrayInit(<<1, 2, 3>>))>>),           \* const b = [1, 2, 3];
  VarStmt(<<Declarator("a", ArrayInit(<<2, 1>>)),
            Declarator("b", ArrayInit(<<1, 2, 3>>))>>),           \* const a = [2, 1], b = [1, 2, 3];
  VarStmt(<<Declarator("x", NumInit(0))>>),                       \* let x = 0;
  AssignElem("b", 1, Plus(Elem("b", 1), 5)),                      \* b[1] = b[1] + 5;
  AssignElem("a", 0, Lit(9)),                                     \* a[0] = 9;
  AssignElem("a", 0, PostInc("x")),                               \* a[0] = x++;
  AssignElem("a", 0, Name("b")),                                  \* a[0] = b;
  AssignElem("b", 0, Lit(9)),                                     \* b[0] = 9;
  AssignId("x", Plus(Name("x"), 1)),                              \* x = x + 1;
  Destructure(<<Elem("a", 0), Elem("a", 1)>>,
              <<Elem("a", 1), Elem("a", 0)>>),                    \* [a[0], a[1]] = [a[1], a[0]];
  Destructure(<<Elem("a", 0), Elem("b", 1)>>,
              <<Elem("b", 1), Elem("a", 0)>>),                    \* [a[0], b[1]] = [b[1], a[0]];
  Destructure(<<Elem("a", 0), Elem("a", 1)>>,
              <<Lit(7), Lit(8)>>),                                \* [a[0], a[1]] = [7, 8];
  Destructure(<<Elem("b", 0), Elem("b", 1), Elem("b", 2)>>,
              <<Elem("b", 2), Elem("b", 0), Elem("b", 1)>>),      \* [b[0], b[1], b[2]] = [b[2], b[0], b[1]];
  ThrowStmt,                                                      \* throw new Error();
  SpinStmt,                                                       \* while (true) {}
  GarbageStmt,                                                    \* text that does not parse
  EmitStmt,                                                       \* __trace.emit('custom', {});
  ThrowNullProtoStmt,                                             \* throw Object.create(null);
  AssignElem("a", 0, RandomCall),                                 \* a[0] = Math.random();
  ConsoleLogStmt,                                                 \* console.log('step');
  Destructure(<<Elem("a", 0), Elem("a", 1)>>,
              <<StoreExpr("b", 0, Lit(1)), Elem("a", 0)>>)        \* [a[0], a[1]] = [b[0] = 1, a[0]];
>>

NumStmts == Len(StmtList)

ProgramsUpTo(n) ==
  UNION {[1..m -> 1..NumStmts] : m \in 0..n}

TextOf(p) == [i \in 1..Len(p) |-> StmtList[p[i]]]

(***************************************************************************)
(* The instrumenter (packages/instrumenter).                               *)
(* A transformation is {statement, newText}: statement is the position of  *)
(* the anchor statement (its getStart() order), newText what replaces it.  *)
(***************************************************************************)
RECURSIVE Flatten(_)
Flatten(ss) == IF ss = <<>> THEN <<>> ELSE Head(ss) \o Flatten(Tail(ss))

Transformation(i, newText) == [statement |-> i, newText |-> newText]

\* one VariableDeclaration with an array-literal initializer -> declare call
collectArrayDeclarations(src) ==
  Flatten([i \in 1..Len(src) |->
    IF src[i].s = "var"
    THEN LET arr == SelectSeq(src[i].decls, LAMBDA d : d.init.i = "array")
         IN [j \in 1..Len(arr) |->
               Transformation(i, <<src[i], DeclareCall(arr[j].name)>>)]
    ELSE <<>>])

\* the guard of the swap rule: both sides two-element array literals, both
\* left elements element accesses
IsSwapShape(stmt) ==
  /\ stmt.s = "destructure"
  /\ Len(stmt.lhs) = 2 /\ Len(stmt.rhs) = 2
  /\ stmt.lhs[1].e = "elem" /\ stmt.lhs[2].e = "elem"

\* SwapNewText with the second write reporting the first index again
SwapNewTextSameIndex(stmt) ==
  LET arrayName == stmt.lhs[1].arr
      index1 == stmt.lhs[1].idx
  IN <<stmt,
       ArrayWriteCall(arrayName, index1, Elem(arrayName, index1)),
       ArrayWriteCall(arrayName, index1, Elem(arrayName, index1)),
       AssignCall(arrayName)>>

\* what the swap rule appends; the array name is taken from the first left
\* element only
SwapNewText(stmt) ==
  LET arrayName == stmt.lhs[1].arr
      index1 == stmt.lhs[1].idx
      index2 == stmt.lhs[2].idx
  IN <<stmt,
       ArrayWriteCall(arrayName, index1, Elem(arrayName, index1)),
       ArrayWriteCall(arrayName, index2, Elem(arrayName, index2)),
       AssignCall(arrayName)>>

collectArraySwaps(src) ==
  Flatten([i \in 1..Len(src) |->
    IF IsSwapShape(src[i])
    THEN <<Transformation(i, SwapNewText(src[i]))>>
    ELSE <<>>])

\* newText without statement.getText(): the call alone replaces the anchor
AssignNewTextCallOnly(stmt) ==
  <<ArrayWriteCall(stmt.lhs.arr, stmt.lhs.idx, stmt.rhs)>>

\* arr[i] = value: the value expression's text is passed again as argument
AssignNewText(stmt) ==
  <<stmt, ArrayWriteCall(stmt.lhs.arr, stmt.lhs.idx, stmt.rhs)>>

\* every assignment expression arr[i] = value of the text, also one that is
\* an operand inside another statement; the anchor is the enclosing statement
collectArrayAssignments(src) ==
  Flatten([i \in 1..Len(src) |->
    IF src[i].s = "assign" /\ src[i].lhs.e = "elem"
    THEN <<Transformation(i, AssignNewText(src[i]))>>
    ELSE IF src[i].s = "destructure"
    THEN LET stores == SelectSeq(src[i].rhs, LAMBDA x : x.e = "store")
         IN [j \in 1..Len(stores) |->
               Transformation(i, <<src[i], ArrayWriteCall(stores[j].arr, stores[j].idx,
                                                          stores[j].rhs)>>)]
    ELSE <<>>])

collectAll(src) ==
  collectArrayDeclarations(src) \o collectArraySwaps(src) \o collectArrayAssignments(src)

\* Array.prototype.sort by anchor start, descending; the sort is stable
SortDescending(ts, n) ==
  Flatten([k \in 1..n |->
    SelectSeq(ts, LAMBDA t : t.statement = n + 1 - k)])

\* forEach without the wasForgotten() test, each replacement made on the
\* statement's current text
RECURSIVE ApplyEveryTransformation(_, _, _)
ApplyEveryTransformation(ts, slots, forgotten) ==
  IF ts = <<>> THEN slots
  ELSE LET t == Head(ts)
       IN ApplyEveryTransformation(Tail(ts),
            [slots EXCEPT ![t.statement] = t.newText \o Tail(slots[t.statement])],
            forgotten)

\* forEach: replaceWithText unless the anchor was forgotten by an earlier
\* replacement.  slots[i] is the current text at original statement i.
RECURSIVE ApplyTransformations(_, _, _)
ApplyTransformations(ts, slots, forgotten) ==
  IF ts = <<>> THEN slots
  ELSE LET t == Head(ts)
       IN IF t.statement \in forgotten
          THEN ApplyTransformations(Tail(ts), slots, forgotten)
          ELSE ApplyTransformations(Tail(ts),
                 [slots EXCEPT ![t.statement] = t.newText],
                 forgotten \cup {t.statement})

transformSourceFile(src) ==
  Flatten(ApplyTransformations(SortDescending(collectAll(src), Len(src)),
                               [i \in 1..Len(src) |-> <<src[i]>>], {}))

HasSyntaxError(src) == \E i \in 1..Len(src) : src[i].s = "garbage"

\* instrument() whose catch block returns the file's text as it stands
instrumentReturnsPartialText(sourceCode, manipulationThrows) ==
  IF /\ manipulationThrows
     /\ HasSyntaxError(sourceCode)
     /\ collectAll(sourceCode) # <<>>
  THEN [code |-> transformSourceFile(sourceCode), success |-> FALSE]
  ELSE [code |-> transformSourceFile(sourceCode), success |-> TRUE]

\* a text manipulation can throw (ManipulationError) when the text holds a
\* syntax error; manipulationThrows is that outcome
instrument(sourceCode, manipulationThrows) ==
  IF /\ manipulationThrows
     /\ HasSyntaxError(sourceCode)
     /\ collectAll(sourceCode) # <<>>
  THEN [code |-> sourceCode, success |-> FALSE]
  ELSE [code |-> transformSourceFile(sourceCode), success |-> TRUE]

(***************************************************************************)
(* One CodeInstrumenter instance: its ts-morph Project keeps the source    *)
(* files of earlier calls, by file path.                                   *)
(***************************************************************************)
FilePaths == {"temp.ts", "sort.ts"}

NoFile == [exists |-> FALSE]
EmptyProject == [f \in FilePaths |-> NoFile]

\* createSourceFile that refuses an existing path
createSourceFileNoOverwrite(proj, filePath, sourceCode, overwrite) ==
  IF proj[filePath].exists
  THEN [threw |-> TRUE, project |-> proj]
  ELSE [threw |-> FALSE,
        project |-> [proj EXCEPT ![filePath] = [exists |-> TRUE, text |-> sourceCode]]]

\* project.createSourceFile(filePath, sourceCode, { overwrite }): throws when
\* the path exists and overwrite is not set, else the file holds sourceCode
createSourceFile(proj, filePath, sourceCode, overwrite) ==
  IF proj[filePath].exists /\ ~overwrite
  THEN [threw |-> TRUE, project |-> proj]
  ELSE [threw |-> FALSE,
        project |-> [proj EXCEPT ![filePath] = [exists |-> TRUE, text |-> sourceCode]]]

\* CodeInstrumenter.instrument(sourceCode, { filePath }) on an instance whose
\* project is proj: the project it leaves and the result it returns
CodeInstrumenterInstrument(proj, sourceCode, filePath, manipulationThrows) ==
  LET f == createSourceFile(proj, filePath, sourceCode, TRUE)
  IN IF f.threw
     THEN [project |-> f.project,
           result |-> [code |-> sourceCode, success |-> FALSE]]
     ELSE LET text == f.project[filePath].text
          IN IF /\ manipulationThrows
                /\ HasSyntaxError(text)
                /\ collectAll(text) # <<>>
             THEN [project |-> f.project,
                   result |-> [code |-> sourceCode, success |-> FALSE]]
             ELSE LET out == transformSourceFile(text)
                  IN [project |-> [f.project EXCEPT ![filePath].text = out],
                      result |-> [code |-> out, success |-> TRUE]]

\* instrumenter.instrument(sourceCode, options) on the instance
InstrumenterCall(sourceCode, filePath, manipulationThrows) ==
  /\ lastInstrument.calls < MaxInstrCalls
  /\ LET r == CodeInstrumenterInstrument(project, sourceCode, filePath,
                                          manipulationThrows)
     IN /\ project' = r.project
        /\ lastInstrument' = [calls |-> lastInstrument.calls + 1,
                              sourceCode |-> sourceCode,
                              filePath |-> filePath,
                              manipulationThrows |-> manipulationThrows,
                              before |-> project,
                              result |-> r.result]
  /\ UNCHANGED <<pipelineVars, now, watcherVars, clientVars>>

(***************************************************************************)
(* The file watcher (packages/watcher): one debounce timer per file path.  *)
(* A timer is its due time; it runs at its due time or later.              *)
(***************************************************************************)
WatchPaths == {"a.js", "b.js"}

NoTimer == [set |-> FALSE]
Timer(filePath, due) == [set |-> TRUE, filePath |-> filePath, due |-> due]
Never == [at |-> FALSE]
At(t) == [at |-> TRUE, time |-> t]

\* handleFileChange without clearTimeout
handleFileChangeNoClear(filePath) ==
  /\ watcher = "open"
  /\ notifications[filePath] < MaxNotifications
  /\ notifications' = [notifications EXCEPT ![filePath] = @ + 1]
  /\ LET timer == Timer(filePath, now + DebounceMs)
     IN /\ timers' = timers \cup {timer}
        /\ debounceTimers' = [debounceTimers EXCEPT ![filePath] = timer]
  /\ lastNotified' = [lastNotified EXCEPT ![filePath] = At(now)]
  /\ bursts' = [bursts EXCEPT ![filePath] =
                  IF lastNotified[filePath].at
                     /\ now - lastNotified[filePath].time < DebounceMs
                  THEN @ ELSE @ + 1]
  /\ UNCHANGED <<reading, watchEvents, watcher, watchCalls, pipelineVars, now,
                 instrumenterVars, clientVars>>

\* handleFileChange(filePath): chokidar reported add or change
handleFileChange(filePath) ==
  /\ watcher = "open"
  /\ notifications[filePath] < MaxNotifications
  /\ notifications' = [notifications EXCEPT ![filePath] = @ + 1]
  /\ LET existingTimer == debounceTimers[filePath]
         timer == Timer(filePath, now + DebounceMs)
     IN /\ timers' = (IF existingTimer.set THEN timers \ {existingTimer} ELSE timers)
                       \cup {timer}
        /\ debounceTimers' = [debounceTimers EXCEPT ![filePath] = timer]
  /\ lastNotified' = [lastNotified EXCEPT ![filePath] = At(now)]
  /\ bursts' = [bursts EXCEPT ![filePath] =
                  IF lastNotified[filePath].at
                     /\ now - lastNotified[filePath].time < DebounceMs
                  THEN @ ELSE @ + 1]
  /\ UNCHANGED <<reading, watchEvents, watcher, watchCalls, pipelineVars, now,
                 instrumenterVars, clientVars>>

\* the setTimeout callback without debounceTimers.delete(filePath)
debounceTimerFiresKeepsEntry(timer) ==
  /\ timer \in timers
  /\ now >= timer.due
  /\ timers' = timers \ {timer}
  /\ reading' = [reading EXCEPT ![timer.filePath] =
                   Append(@, lastNotified[timer.filePath].time)]
  /\ UNCHANGED <<debounceTimers, lastNotified, bursts, notifications, watchEvents, watcher,
                 watchCalls, pipelineVars, now, instrumenterVars, clientVars>>

\* the setTimeout callback: the timer is due; it leaves the map and the read
\* of the file starts
debounceTimerFires(timer) ==
  /\ timer \in timers
  /\ now >= timer.due
  /\ timers' = timers \ {timer}
  /\ debounceTimers' = [debounceTimers EXCEPT ![timer.filePath] = NoTimer]
  /\ reading' = [reading EXCEPT ![timer.filePath] =
                   Append(@, lastNotified[timer.filePath].time)]
  /\ UNCHANGED <<lastNotified, bursts, notifications, watchEvents, watcher, watchCalls,
                 pipelineVars, now, instrumenterVars, clientVars>>

\* readAndEmitFile whose catch block also emits file:changed
readAndEmitFileChangedOnError(filePath, readFails) ==
  /\ reading[filePath] # <<>>
  /\ reading' = [reading EXCEPT ![filePath] = Tail(@)]
  /\ watchEvents' =
       LET e == [type |-> "file:changed", filePath |-> filePath, at |-> now,
                 notified |-> Head(reading[filePath]), readFailed |-> readFails]
       IN IF readFails
          THEN watchEvents \o <<e, [e EXCEPT !.type = "file:error"]>>
          ELSE Append(watchEvents, e)
  /\ UNCHANGED <<debounceTimers, timers, lastNotified, bursts, notifications,
                 watcher, watchCalls, pipelineVars, now, instrumenterVars, clientVars>>

\* readAndEmitFile(filePath) after its await: file:changed with the content,
\* or file:error when readFile rejected
readAndEmitFile(filePath, readFails) ==
  /\ reading[filePath] # <<>>
  /\ reading' = [reading EXCEPT ![filePath] = Tail(@)]
  /\ watchEvents' = Append(watchEvents,
                           [type |-> IF readFails THEN "file:error" ELSE "file:changed",
                            filePath |-> filePath,
                            at |-> now,
                            notified |-> Head(reading[filePath]),
                            readFailed |-> readFails])
  /\ UNCHANGED <<debounceTimers, timers, lastNotified, bursts, notifications,
                 watcher, watchCalls, pipelineVars, now, instrumenterVars, clientVars>>

\* watch(pattern) without the test of this.watcher
watchWithoutGuard ==
  /\ Len(watchCalls) < MaxWatchCalls
  /\ watchCalls' = Append(watchCalls, "returned")
  /\ watcher' = "open"
  /\ UNCHANGED <<debounceTimers, timers, reading, lastNotified, bursts, notifications,
                 watchEvents, pipelineVars, now, instrumenterVars, clientVars>>

\* watch(pattern)
watch ==
  /\ Len(watchCalls) < MaxWatchCalls
  /\ IF watcher # "null"
     THEN /\ watchCalls' = Append(watchCalls, "threw")
          /\ UNCHANGED watcher
     ELSE /\ watchCalls' = Append(watchCalls, "returned")
          /\ watcher' = "open"
  /\ UNCHANGED <<debounceTimers, timers, reading, lastNotified, bursts, notifications,
                 watchEvents, pipelineVars, now, instrumenterVars, clientVars>>

\* stop() up to its await: chokidar's close() is under way and reports no
\* further add or change
stop ==
  /\ watcher = "open"
  /\ watcher' = "closing"
  /\ UNCHANGED <<debounceTimers, timers, reading, lastNotified, bursts, notifications,
                 watchEvents, watchCalls, pipelineVars, now, instrumenterVars,
                 clientVars>>

\* stop() after its await: the watcher is dropped, every timer of the map is
\* cleared and the map emptied; stop() has completed
stopCompletes ==
  /\ watcher = "closing"
  /\ watcher' = "null"
  /\ timers' = timers \ {debounceTimers[f] : f \in WatchPaths}
  /\ debounceTimers' = [f \in WatchPaths |-> NoTimer]
  /\ UNCHANGED <<reading, lastNotified, bursts, notifications, watchEvents, watchCalls,
                 pipelineVars, now, instrumenterVars, clientVars>>

\* time passes while the watcher runs
WatchTick ==
  /\ now < WatchHorizon
  /\ now' = now + WatchStep
  /\ UNCHANGED <<pipelineVars, instrumenterVars, watcherVars, clientVars>>

(***************************************************************************)
(* The sandbox (packages/executor): values, expressions, __trace.          *)
(***************************************************************************)
Thrown == [thrown |-> TRUE]

\* the plain data JSON.stringify sees; an array is followed through the heap,
\* and with fuel spent the structure is circular
RECURSIVE Snapshot(_, _, _)
Snapshot(v, hp, fuel) ==
  IF v.k # "ref" THEN v
  ELSE IF fuel = 0 THEN [k |-> "circular"]
  ELSE [k |-> "arr",
        elems |-> [i \in 1..Len(hp[v.r]) |-> Snapshot(hp[v.r][i], hp, fuel - 1)]]

RECURSIVE IsCircular(_)
IsCircular(d) ==
  \/ d.k = "circular"
  \/ d.k = "arr" /\ \E i \in 1..Len(d.elems) : IsCircular(d.elems[i])

\* what a reader of the value sees now (no two arrays nest deeper than
\* their number without a cycle)
View(v, hp) == Snapshot(v, hp, Cardinality(ArrNames) + 1)

\* JSON.parse(JSON.stringify(value)): throws on a circular structure and on
\* undefined
JsonClone(v, hp) ==
  LET d == View(v, hp)
  IN IF IsCircular(d) \/ d.k = "undef"
     THEN Thrown
     ELSE [thrown |-> FALSE, val |-> d]

\* arr[idx] = v on the array object r
StoreElem(hp, r, idx, v) ==
  LET old == hp[r]
      n == IF idx + 1 > Len(old) THEN idx + 1 ELSE Len(old)
  IN [hp EXCEPT ![r] = [i \in 1..n |->
        IF i = idx + 1 THEN v ELSE IF i <= Len(old) THEN old[i] ELSE UndefV]]

RECURSIVE Eval(_, _, _)
Eval(expr, bnd, hp) ==
  CASE expr.e = "lit" ->
         [thrown |-> FALSE, val |-> IntV(expr.n), bindings |-> bnd, heap |-> hp]
    [] expr.e = "name" ->
         IF bnd[expr.id].k = "unbound" THEN Thrown
         ELSE [thrown |-> FALSE, val |-> bnd[expr.id], bindings |-> bnd, heap |-> hp]
    [] expr.e = "elem" ->
         LET base == bnd[expr.arr]
         IN IF base.k = "unbound" THEN Thrown
            ELSE [thrown |-> FALSE,
                  val |-> IF base.k = "ref" /\ expr.idx + 1 \in 1..Len(hp[base.r])
                          THEN hp[base.r][expr.idx + 1]
                          ELSE UndefV,
                  bindings |-> bnd, heap |-> hp]
    [] expr.e = "plus" ->
         LET r == Eval(expr.of, bnd, hp)
         IN IF r.thrown THEN Thrown
            ELSE [thrown |-> FALSE,
                  val |-> CASE r.val.k = "int" -> IntV(r.val.n + expr.n)
                            [] r.val.k = "undef" -> [k |-> "nan"]
                            [] OTHER -> [k |-> "str", of |-> View(r.val, hp),
                                         plus |-> expr.n],
                  bindings |-> r.bindings, heap |-> r.heap]
    [] expr.e = "random" ->
         [thrown |-> FALSE, val |-> IntV(random), bindings |-> bnd, heap |-> hp]
    [] expr.e = "store" ->
         \* arr[idx] = rhs as an operand: its value is the value stored
         LET base == bnd[expr.arr]
         IN IF base.k = "unbound" THEN Thrown
            ELSE LET r == Eval(expr.rhs, bnd, hp)
                 IN IF r.thrown THEN Thrown
                    ELSE [thrown |-> FALSE, val |-> r.val, bindings |-> r.bindings,
                          heap |-> IF base.k = "ref"
                                   THEN StoreElem(r.heap, base.r, expr.idx, r.val)
                                   ELSE r.heap]
    [] expr.e = "postinc" ->
         LET old == bnd[expr.id]
         IN IF old.k = "unbound" THEN Thrown
            ELSE IF old.k = "int"
            THEN [thrown |-> FALSE, val |-> old,
                  bindings |-> [bnd EXCEPT ![expr.id] = IntV(old.n + 1)], heap |-> hp]
            ELSE [thrown |-> FALSE, val |-> [k |-> "nan"],
                  bindings |-> [bnd EXCEPT ![expr.id] = [k |-> "nan"]], heap |-> hp]

\* the elements of an array literal, left to right
RECURSIVE EvalList(_, _, _)
EvalList(exprs, bnd, hp) ==
  IF exprs = <<>> THEN [thrown |-> FALSE, vals |-> <<>>, bindings |-> bnd, heap |-> hp]
  ELSE LET r == Eval(Head(exprs), bnd, hp)
       IN IF r.thrown THEN Thrown
          ELSE LET rest == EvalList(Tail(exprs), r.bindings, r.heap)
               IN IF rest.thrown THEN Thrown
                  ELSE [thrown |-> FALSE, vals |-> <<r.val>> \o rest.vals,
                        bindings |-> rest.bindings, heap |-> rest.heap]

\* emit with unshift in place of push
emitAtFront(st, type, data, timestamp) ==
  [st EXCEPT !.events = <<[id |-> st.eventId, timestamp |-> timestamp,
                           type |-> type, data |-> data]>> \o st.events,
             !.eventId = st.eventId + 1]

\* emit that reads eventId without advancing it
emitSameId(st, type, data, timestamp) ==
  [st EXCEPT !.events = Append(st.events,
                          [id |-> st.eventId, timestamp |-> timestamp,
                           type |-> type, data |-> data])]

\* emit with the subtraction reversed: startTime - Date.now()
emitReversedClock(st, type, data, timestamp) ==
  [st EXCEPT !.events = Append(st.events,
                          [id |-> st.eventId, timestamp |-> 0 - timestamp,
                           type |-> type, data |-> data]),
             !.eventId = st.eventId + 1]

\* __trace.emit(type, data)
emit(st, type, data, timestamp) ==
  [st EXCEPT !.events = Append(st.events,
                          [id |-> st.eventId, timestamp |-> timestamp,
                           type |-> type, data |-> data]),
             !.eventId = st.eventId + 1]

\* __trace.declare(name, value)
declare(st, name, value, timestamp) ==
  LET c == JsonClone(value, st.heap)
  IN IF c.thrown THEN [st EXCEPT !.thrown = TRUE]
     ELSE emit(st, "variable:declare", [name |-> name, value |-> c.val], timestamp)

\* __trace.assign(name, value)
assign(st, name, value, timestamp) ==
  LET c == JsonClone(value, st.heap)
  IN IF c.thrown THEN [st EXCEPT !.thrown = TRUE]
     ELSE emit(st, "variable:assign", [name |-> name, value |-> c.val], timestamp)

\* __trace.arrayWrite(name, index, value)
arrayWrite(st, name, index, value, timestamp) ==
  emit(st, "array:write", [name |-> name, index |-> index, value |-> value], timestamp)

(***************************************************************************)
(* Executing one statement of the script.  st is the context:              *)
(* [bindings, heap, events, eventId, thrown].                              *)
(***************************************************************************)
RECURSIVE ExecDecls(_, _)
ExecDecls(decls, st) ==
  IF decls = <<>> THEN st
  ELSE LET d == Head(decls)
       IN ExecDecls(Tail(decls),
            IF d.init.i = "array"
            THEN [st EXCEPT !.bindings[d.name] = RefV(d.name),
                            !.heap[d.name] = [i \in 1..Len(d.init.elems) |->
                                                IntV(d.init.elems[i])]]
            ELSE [st EXCEPT !.bindings[d.name] = IntV(d.init.n)])

\* PutValue on one assignment target
AssignTarget(target, v, st) ==
  IF target.e = "elem"
  THEN LET base == st.bindings[target.arr]
       IN IF base.k = "unbound" THEN [st EXCEPT !.thrown = TRUE]
          ELSE IF base.k = "ref"
          THEN [st EXCEPT !.heap = StoreElem(st.heap, base.r, target.idx, v)]
          ELSE st
  ELSE [st EXCEPT !.bindings[target.id] = v]

\* destructuring assignment: the targets left to right
RECURSIVE AssignTargets(_, _, _)
AssignTargets(targets, vals, st) ==
  IF targets = <<>> \/ st.thrown THEN st
  ELSE AssignTargets(Tail(targets),
                     IF vals = <<>> THEN <<>> ELSE Tail(vals),
                     AssignTarget(Head(targets),
                                  IF vals = <<>> THEN UndefV ELSE Head(vals), st))

ExecCall(stmt, st, timestamp) ==
  IF stmt.fn = "emit"
  THEN emit(st, "custom", [name |-> stmt.name], timestamp)
  ELSE LET r == Eval(stmt.arg, st.bindings, st.heap)
       IN IF r.thrown THEN [st EXCEPT !.thrown = TRUE]
          ELSE LET st1 == [st EXCEPT !.bindings = r.bindings, !.heap = r.heap]
               IN CASE stmt.fn = "declare" -> declare(st1, stmt.name, r.val, timestamp)
                    [] stmt.fn = "assign" -> assign(st1, stmt.name, r.val, timestamp)
                    [] stmt.fn = "arrayWrite" ->
                         arrayWrite(st1, stmt.name, stmt.index, r.val, timestamp)

ExecStmt(stmt, st, timestamp) ==
  CASE stmt.s = "var" -> ExecDecls(stmt.decls, st)
    [] stmt.s = "assign" ->
         \* the target reference is resolved before the right-hand side runs
         IF stmt.lhs.e = "elem" /\ st.bindings[stmt.lhs.arr].k = "unbound"
         THEN [st EXCEPT !.thrown = TRUE]
         ELSE LET r == Eval(stmt.rhs, st.bindings, st.heap)
              IN IF r.thrown THEN [st EXCEPT !.thrown = TRUE]
                 ELSE AssignTarget(stmt.lhs, r.val, [st EXCEPT !.bindings = r.bindings, !.heap = r.heap])
    [] stmt.s = "destructure" ->
         LET r == EvalList(stmt.rhs, st.bindings, st.heap)
         IN IF r.thrown THEN [st EXCEPT !.thrown = TRUE]
            ELSE AssignTargets(stmt.lhs, r.vals, [st EXCEPT !.bindings = r.bindings, !.heap = r.heap])
    [] stmt.s = "throw" -> [st EXCEPT !.thrown = TRUE]
    [] stmt.s = "call" -> ExecCall(stmt, st, timestamp)
    [] OTHER -> st

\* the arrays of the context as a reader sees them now
ArraysOf(st) == [n \in ArrNames |-> View(RefV(n), st.heap)]

\* does the text call Math.random()
CallsRandom(c) ==
  \E i \in 1..Len(c) :
    \/ c[i].s = "assign" /\ c[i].rhs.e = "random"
    \/ c[i].s = "call" /\ c[i].fn = "arrayWrite" /\ c[i].arg.e = "random"

\* what Math.random() can return in a run of the text; a text that never
\* calls it runs the same whatever that is
RandomDraws(c) == IF CallsRandom(c) THEN RandomValues ELSE {0}

\* the context createSandbox() returns
FreshContext ==
  [bindings |-> [n \in VarNames |-> Unbound], heap |-> [n \in ArrNames |-> <<>>],
   events |-> <<>>, eventId |-> 0, thrown |-> FALSE]

\* the script from statement i on, run without interruption: how it stops
\* and the context it leaves
RECURSIVE RunFrom(_, _, _)
RunFrom(c, i, st) ==
  IF i > Len(c) THEN [outcome |-> "completed", st |-> st]
  ELSE IF c[i].s = "spin" THEN [outcome |-> "timeout", st |-> st]
  ELSE LET st1 == ExecStmt(c[i], st, 0)
       IN IF st1.thrown THEN [outcome |-> "thrown", st |-> st1]
          ELSE RunFrom(c, i + 1, st1)

\* names declared by let/const in the script, with repetitions
DeclaredNames(c) ==
  Flatten([i \in 1..Len(c) |->
    IF c[i].s = "var" THEN [j \in 1..Len(c[i].decls) |-> c[i].decls[j].name]
    ELSE <<>>])

\* what makes vm.runInNewContext throw a SyntaxError before running anything
CompileError(c) ==
  \/ HasSyntaxError(c)
  \/ LET ns == DeclaredNames(c)
     IN \E i, j \in 1..Len(ns) : i # j /\ ns[i] = ns[j]

(***************************************************************************)
(* The server (packages/server).                                           *)
(***************************************************************************)
Sockets == {"s1", "s2"}

\* broadcast without the readyState test
broadcastToEveryClient(message) ==
  [c \in Sockets |->
    IF c \in clients THEN Append(outbox[c], message) ELSE outbox[c]]

\* broadcast(message): the new outboxes
broadcast(message) ==
  [c \in Sockets |->
    IF c \in clients /\ sockState[c] = "open"
    THEN Append(outbox[c], message) ELSE outbox[c]]

TraceStartMessage == [type |-> "trace:start", timestamp |-> now]
TraceCompleteMessage(evs, duration) ==
  [type |-> "trace:complete", events |-> evs,
   summary |-> [totalEvents |-> Len(evs), duration |-> duration]]
TraceErrorMessage(error, partialTrace) ==
  [type |-> "trace:error", error |-> error, partialTrace |-> partialTrace]

broadcastTraceStart ==
  /\ currentTrace' = <<>>
  /\ outbox' = broadcast(TraceStartMessage)

broadcastTrace(evs, duration) ==
  /\ currentTrace' = evs
  /\ outbox' = broadcast(TraceCompleteMessage(evs, duration))

\* broadcastError that also forgets the retained trace
broadcastErrorClearsTrace(error, partialTrace) ==
  /\ outbox' = broadcast(TraceErrorMessage(error, partialTrace))
  /\ currentTrace' = <<>>

broadcastError(error, partialTrace) ==
  /\ outbox' = broadcast(TraceErrorMessage(error, partialTrace))
  /\ UNCHANGED currentTrace

\* handleConnection(socket)
handleConnection(c) ==
  /\ pc = "idle"
  /\ UNCHANGED <<instrumenterVars, watcherVars, hostVars, historyVars, clientVars>>
  /\ sockState[c] = "new"
  /\ clients' = clients \cup {c}
  /\ sockState' = [sockState EXCEPT ![c] = "open"]
  /\ outbox' = IF Len(currentTrace) > 0
               THEN [outbox EXCEPT ![c] =
                       Append(@, TraceCompleteMessage(currentTrace, 0))]
               ELSE outbox
  /\ UNCHANGED <<currentTrace, lastCompleted, handlerVars, sandboxVars, now>>

\* the socket starts its closing handshake: readyState is CLOSING, the close
\* event has not been delivered yet
socketClosing(c) ==
  /\ pc = "idle"
  /\ UNCHANGED <<instrumenterVars, watcherVars, hostVars, historyVars, clientVars>>
  /\ sockState[c] = "open"
  /\ sockState' = [sockState EXCEPT ![c] = "closing"]
  /\ UNCHANGED <<clients, currentTrace, outbox, lastCompleted, handlerVars, sandboxVars, now>>

\* socket.on('error'): the socket is CLOSING when the event is delivered, and
\* its close event follows
socketError(c) ==
  /\ pc = "idle"
  /\ UNCHANGED <<instrumenterVars, watcherVars, hostVars, historyVars, clientVars>>
  /\ sockState[c] \in {"open", "closing"}
  /\ clients' = clients \ {c}
  /\ sockState' = [sockState EXCEPT ![c] = "errored"]
  /\ UNCHANGED <<currentTrace, outbox, lastCompleted, handlerVars, sandboxVars, now>>

\* socket.on('close')
socketClose(c) ==
  /\ pc = "idle"
  /\ UNCHANGED <<instrumenterVars, watcherVars, hostVars, historyVars, clientVars>>
  /\ sockState[c] \in {"open", "closing", "errored"}
  /\ clients' = clients \ {c}
  /\ sockState' = [sockState EXCEPT ![c] = "closed"]
  /\ UNCHANGED <<currentTrace, outbox, lastCompleted, handlerVars, sandboxVars, now>>

(***************************************************************************)
(* The visualizer (packages/visualizer).  It receives the server's         *)
(* messages as JSON text: JsonEvents is JSON.parse(JSON.stringify(events)) *)
(* taken when the message is sent.                                         *)
(***************************************************************************)
\* JSON of plain data: NaN and an undefined array element become null
RECURSIVE JsonValue(_)
JsonValue(d) ==
  CASE d.k = "arr" ->
         [k |-> "arr",
          elems |-> [i \in 1..Len(d.elems) |->
                       IF d.elems[i].k \in {"undef", "nan"} THEN [k |-> "null"]
                       ELSE JsonValue(d.elems[i])]]
    [] d.k = "nan" -> [k |-> "null"]
    [] OTHER -> d

\* JSON of an event's data: a property whose value is undefined is left out
JsonData(data, hp) ==
  IF "value" \notin DOMAIN data THEN data
  ELSE LET v == View(data.value, hp)
       IN IF v.k = "undef"
          THEN [f \in DOMAIN data \ {"value"} |-> data[f]]
          ELSE [data EXCEPT !.value = JsonValue(v)]

JsonEvents(evs, hp) ==
  [i \in 1..Len(evs) |-> [evs[i] EXCEPT !.data = JsonData(evs[i].data, hp)]]

\* the loop of getArrayFromEvents: from index i down to 0
RECURSIVE MostRecentArray(_, _)
MostRecentArray(evs, i) ==
  IF i < 0 THEN <<>>
  ELSE IF /\ i + 1 <= Len(evs)
          /\ evs[i + 1].type \in {"variable:declare", "variable:assign"}
          /\ "value" \in DOMAIN evs[i + 1].data
          /\ evs[i + 1].data.value.k = "arr"
       THEN evs[i + 1].data.value.elems
       ELSE MostRecentArray(evs, i - 1)

\* getArrayFromEvents(events, currentIndex)
getArrayFromEvents(evs, currentIndex) ==
  IF Len(evs) = 0 THEN <<>> ELSE MostRecentArray(evs, currentIndex)

\* events[currentIndex], undefined out of range
NoEvent == [type |-> "undefined"]
EventAt(evs, currentIndex) ==
  IF currentIndex + 1 \in 1..Len(evs) THEN evs[currentIndex + 1] ELSE NoEvent

\* isIndexActive(event, index)
isIndexActive(event, index) ==
  IF event = NoEvent THEN FALSE
  ELSE IF event.type = "array:write" /\ event.data.index = index THEN TRUE
  ELSE IF event.type = "compare" /\ "indices" \in DOMAIN event.data
  THEN \E j \in 1..Len(event.data.indices) : event.data.indices[j] = index
  ELSE FALSE

(***************************************************************************)
(* useWebSocket (packages/visualizer): the page's state and its handlers.  *)
(***************************************************************************)
NoInterval == [isNull |-> TRUE, running |-> FALSE, length |-> 0]

\* error: null
NoError == [isNull |-> TRUE]

ErrorText(text) == [isNull |-> FALSE, text |-> text]

\* the events a received trace is made of
ClientEventList == <<
  [type |-> "variable:declare",
   data |-> [name |-> "a", value |-> [k |-> "arr", elems |-> <<IntV(2), IntV(1)>>]]],
  [type |-> "array:write",
   data |-> [name |-> "a", index |-> 0, value |-> IntV(9)]],
  [type |-> "array:read",
   data |-> [name |-> "a", index |-> 0,
             value |-> [k |-> "arr", elems |-> <<IntV(7), IntV(7)>>]]],
  [type |-> "compare",
   data |-> [indices |-> <<0, 1>>]],
  [type |-> "variable:assign",
   data |-> [name |-> "a", value |-> [k |-> "arr", elems |-> <<IntV(1), IntV(2)>>]]] >>

ClientTrace(ks) ==
  [i \in 1..Len(ks) |->
     [id |-> i - 1, timestamp |-> 0,
      type |-> ClientEventList[ks[i]].type, data |-> ClientEventList[ks[i]].data]]

ClientTraces ==
  {ClientTrace(ks) : ks \in UNION {[1..n -> 1..Len(ClientEventList)] : n \in 0..MaxTraceLen}}

\* ServerMessage, after JSON.parse; events, error and partialTrace are optional
ServerMessages ==
  {[type |-> "trace:start", timestamp |-> 0]}
  \cup {[type |-> "trace:complete"]}
  \cup {[type |-> "trace:complete", events |-> tr] : tr \in ClientTraces}
  \cup {[type |-> "trace:error"]}
  \cup {[type |-> "trace:error", error |-> "", partialTrace |-> ClientTrace(<<1>>)]}
  \cup {[type |-> "trace:error", error |-> "boom", partialTrace |-> tr] :
          tr \in ClientTraces}
  \cup {[type |-> "trace:event", event |-> ClientTrace(<<1>>)[1]]}
  \cup {[type |-> "trace:progress", events |-> ClientTrace(<<1, 2>>),
          error |-> "boom", partialTrace |-> ClientTrace(<<1>>)]}

\* ws.onmessage with an else branch that clears the trace
onmessageClearsOnUnknown(message) ==
  /\ wsState = "open"
  /\ received < MaxMessages
  /\ received' = received + 1
  /\ lastMessage' = message
  /\ IF message.type = "trace:start"
     THEN /\ vizEvents' = <<>>
          /\ vizIndex' = 0
          /\ vizError' = NoError
     ELSE IF message.type = "trace:complete"
     THEN /\ vizEvents' = IF "events" \in DOMAIN message THEN message.events ELSE <<>>
          /\ vizIndex' = 0
          /\ UNCHANGED vizError
     ELSE IF message.type = "trace:error"
     THEN /\ vizError' = IF "error" \in DOMAIN message /\ message.error # ""
                         THEN ErrorText(message.error)
                         ELSE ErrorText("Unknown error")
          /\ vizEvents' = IF "partialTrace" \in DOMAIN message
                          THEN message.partialTrace ELSE <<>>
          /\ UNCHANGED vizIndex
     ELSE /\ vizEvents' = <<>>
          /\ vizIndex' = 0
          /\ UNCHANGED vizError
  /\ UNCHANGED <<isPlaying, playIntervalRef, connected, wsState>>
  /\ UNCHANGED <<pipelineVars, now, instrumenterVars, watcherVars>>

\* ws.onmessage
onmessage(message) ==
  /\ wsState = "open"
  /\ received < MaxMessages
  /\ received' = received + 1
  /\ lastMessage' = message
  /\ IF message.type = "trace:start"
     THEN /\ vizEvents' = <<>>
          /\ vizIndex' = 0
          /\ vizError' = NoError
     ELSE IF message.type = "trace:complete"
     THEN /\ vizEvents' = IF "events" \in DOMAIN message THEN message.events ELSE <<>>
          /\ vizIndex' = 0
          /\ UNCHANGED vizError
     ELSE IF message.type = "trace:error"
     THEN /\ vizError' = IF "error" \in DOMAIN message /\ message.error # ""
                         THEN ErrorText(message.error)
                         ELSE ErrorText("Unknown error")
          /\ vizEvents' = IF "partialTrace" \in DOMAIN message
                          THEN message.partialTrace ELSE <<>>
          /\ UNCHANGED vizIndex
     ELSE UNCHANGED <<vizEvents, vizIndex, vizError>>
  /\ UNCHANGED <<isPlaying, playIntervalRef, connected, wsState>>
  /\ UNCHANGED <<pipelineVars, now, instrumenterVars, watcherVars>>

\* ws.onopen
onopen ==
  /\ wsState = "connecting"
  /\ wsState' = "open"
  /\ connected' = TRUE
  /\ vizError' = NoError
  /\ UNCHANGED <<vizEvents, vizIndex, received, lastMessage, isPlaying, playIntervalRef>>
  /\ UNCHANGED <<pipelineVars, now, instrumenterVars, watcherVars>>

\* ws.onerror; the socket's close event follows
onerror ==
  /\ wsState \in {"connecting", "open"}
  /\ wsState' = "failed"
  /\ vizError' = ErrorText("Connection error")
  /\ connected' = FALSE
  /\ UNCHANGED <<vizEvents, vizIndex, received, lastMessage, isPlaying, playIntervalRef>>
  /\ UNCHANGED <<pipelineVars, now, instrumenterVars, watcherVars>>

\* ws.onclose
onclose ==
  /\ wsState \in {"connecting", "open", "failed"}
  /\ wsState' = "closed"
  /\ connected' = FALSE
  /\ UNCHANGED <<vizEvents, vizError, vizIndex, received, lastMessage,
                 isPlaying, playIntervalRef>>
  /\ UNCHANGED <<pipelineVars, now, instrumenterVars, watcherVars>>

\* play(), from the Play button, which is shown while not playing and is
\* disabled when there is no event or the last step is reached
play ==
  /\ ~isPlaying
  /\ Len(vizEvents) # 0 /\ vizIndex < Len(vizEvents) - 1
  /\ isPlaying' = TRUE
  /\ playIntervalRef' = [isNull |-> FALSE, running |-> TRUE, length |-> Len(vizEvents)]
  /\ UNCHANGED <<vizEvents, vizError, vizIndex, received, lastMessage, connected, wsState>>
  /\ UNCHANGED <<pipelineVars, now, instrumenterVars, watcherVars>>

\* the callback with the end test prev >= events.length
playIntervalFiresPastEnd ==
  /\ playIntervalRef.running
  /\ IF vizIndex >= playIntervalRef.length
     THEN /\ isPlaying' = FALSE
          /\ playIntervalRef' = [playIntervalRef EXCEPT !.running = FALSE]
          /\ UNCHANGED vizIndex
     ELSE /\ vizIndex' = vizIndex + 1
          /\ UNCHANGED <<isPlaying, playIntervalRef>>
  /\ UNCHANGED <<vizEvents, vizError, received, lastMessage, connected, wsState>>
  /\ UNCHANGED <<pipelineVars, now, instrumenterVars, watcherVars>>

\* the setInterval callback of play(): events is the array of the render in
\* which play() was called
playIntervalFires ==
  /\ playIntervalRef.running
  /\ IF vizIndex >= playIntervalRef.length - 1
     THEN /\ isPlaying' = FALSE
          /\ playIntervalRef' = [playIntervalRef EXCEPT !.running = FALSE]
          /\ UNCHANGED vizIndex
     ELSE /\ vizIndex' = vizIndex + 1
          /\ UNCHANGED <<isPlaying, playIntervalRef>>
  /\ UNCHANGED <<vizEvents, vizError, received, lastMessage, connected, wsState>>
  /\ UNCHANGED <<pipelineVars, now, instrumenterVars, watcherVars>>

\* pause() without clearInterval
pauseKeepsInterval ==
  /\ isPlaying
  /\ isPlaying' = FALSE
  /\ UNCHANGED playIntervalRef
  /\ UNCHANGED <<vizEvents, vizError, vizIndex, received, lastMessage, connected, wsState>>
  /\ UNCHANGED <<pipelineVars, now, instrumenterVars, watcherVars>>

\* pause(), from the Pause button, which is shown while playing
pause ==
  /\ isPlaying
  /\ isPlaying' = FALSE
  /\ playIntervalRef' = NoInterval
  /\ UNCHANGED <<vizEvents, vizError, vizIndex, received, lastMessage, connected, wsState>>
  /\ UNCHANGED <<pipelineVars, now, instrumenterVars, watcherVars>>

\* reset(), from the Reset button, which is disabled when there is no event
reset ==
  /\ Len(vizEvents) # 0
  /\ isPlaying' = FALSE
  /\ playIntervalRef' = NoInterval
  /\ vizIndex' = 0
  /\ UNCHANGED <<vizEvents, vizError, received, lastMessage, connected, wsState>>
  /\ UNCHANGED <<pipelineVars, now, instrumenterVars, watcherVars>>

(***************************************************************************)
(* execute() (packages/executor) and the file:changed handler              *)
(* (packages/cli).  The handler is synchronous: pc is its position.        *)
(***************************************************************************)
NoResult == [returned |-> FALSE]
EmptyBindings == [n \in VarNames |-> Unbound]
EmptyHeap == [n \in ArrNames |-> <<>>]

Context == [bindings |-> bindings, heap |-> heap, events |-> events,
            eventId |-> eventId, thrown |-> FALSE]

\* the try block's return
successResult(trace, duration) ==
  [returned |-> TRUE, success |-> TRUE, trace |-> trace, duration |-> duration]

\* a catch block returning no error descriptor
faultResultNoError(message, duration) ==
  [returned |-> TRUE, success |-> FALSE, trace |-> <<>>, duration |-> duration]

\* a catch block whose eventIndex counts the events the runtime holds
faultResultEmittedIndex(message, duration) ==
  [returned |-> TRUE, success |-> FALSE, trace |-> <<>>,
   duration |-> duration,
   error |-> [message |-> message, eventIndex |-> Len(events)]]

\* the catch block's return
faultResult(message, duration) ==
  LET partialTrace == <<>>
      eventIndex == Len(partialTrace)
  IN [returned |-> TRUE, success |-> FALSE, trace |-> partialTrace,
      duration |-> duration,
      error |-> [message |-> message, eventIndex |-> eventIndex]]

\* vm.runInNewContext(c, createSandbox()) as a function of the text alone
RunScript(c) ==
  IF CompileError(c) THEN [outcome |-> "syntax", st |-> FreshContext]
  ELSE RunFrom(c, 1, FreshContext)

\* the catch block's message: error.message of an Error, String(error) of
\* any other thrown value; String() of an object without a prototype throws
\* a TypeError
ErrorMessage(thrownValue) ==
  IF thrownValue = "nullproto"
  THEN [threw |-> TRUE]
  ELSE [threw |-> FALSE, message |-> "Error"]

\* a watchdog that never fires
TimedOutNever == FALSE

\* the vm's watchdog: the script ran for the timeout
TimedOut == now - vmStart >= DefaultTimeout

\* the file watcher delivers file:changed with the file's content
FileChanged(content) ==
  /\ pc = "idle"
  /\ UNCHANGED <<instrumenterVars, watcherVars, hostVars, clientVars>>
  /\ runs < MaxRuns
  /\ source' = content
  /\ pc' = "changed"
  /\ runs' = runs + 1
  /\ calls' = <<>>
  /\ instrumentResult' = NoResult
  /\ result' = NoResult
  /\ previousRun' = IF result.returned
                    THEN [some |-> TRUE, code |-> code, success |-> result.success,
                          trace |-> result.trace]
                    ELSE previousRun
  /\ UNCHANGED <<sandboxVars, serverVars, now>>

\* the failure branch without its return: the handler goes on to execute
InstrumentationFailedNoReturn(r) ==
  /\ currentTrace' = <<>>
  /\ outbox' = [c \in Sockets |->
                 IF c \in clients /\ sockState[c] = "open"
                 THEN outbox[c] \o <<TraceErrorMessage("Instrumentation failed", <<>>),
                                     TraceStartMessage>>
                 ELSE outbox[c]]
  /\ calls' = <<[op |-> "instrument"],
               [op |-> "broadcastError",
                message |-> TraceErrorMessage("Instrumentation failed", <<>>)],
               [op |-> "broadcastTraceStart", message |-> TraceStartMessage],
               [op |-> "execute"]>>
  /\ pc' = "running"
  /\ code' = r.code
  /\ ip' = 0
  /\ bindings' = EmptyBindings
  /\ heap' = EmptyHeap
  /\ events' = <<>>
  /\ eventId' = 0
  /\ traceStart' = now
  /\ vmStart' = now
  /\ heapAtEmit' = <<>>
  /\ random' \in RandomDraws(r.code)
  /\ UNCHANGED result

\* instrument() failed: report it and return from the handler
InstrumentationFailed(r) ==
  /\ broadcastError("Instrumentation failed", <<>>)
  /\ calls' = <<[op |-> "instrument"],
               [op |-> "broadcastError",
                message |-> TraceErrorMessage("Instrumentation failed", <<>>)]>>
  /\ pc' = "idle"
  /\ UNCHANGED <<sandboxVars, result>>

\* execute() entering the vm with the __trace object of the run before
StartExecutionReusedTrace(r) ==
  /\ broadcastTraceStart
  /\ calls' = <<[op |-> "instrument"],
               [op |-> "broadcastTraceStart", message |-> TraceStartMessage],
               [op |-> "execute"]>>
  /\ pc' = "running"
  /\ code' = r.code
  /\ ip' = 0
  /\ bindings' = EmptyBindings
  /\ heap' = EmptyHeap
  /\ UNCHANGED <<events, eventId, traceStart, heapAtEmit>>
  /\ random' \in RandomDraws(r.code)
  /\ vmStart' = now
  /\ UNCHANGED result

\* instrument() succeeded: trace:start, then execute() builds its sandbox
\* and enters vm.runInNewContext
StartExecution(r) ==
  /\ broadcastTraceStart
  /\ calls' = <<[op |-> "instrument"],
               [op |-> "broadcastTraceStart", message |-> TraceStartMessage],
               [op |-> "execute"]>>
  /\ pc' = "running"
  /\ code' = r.code
  /\ ip' = 0
  /\ bindings' = EmptyBindings
  /\ heap' = EmptyHeap
  /\ events' = <<>>
  /\ eventId' = 0
  /\ traceStart' = now
  /\ vmStart' = now
  /\ heapAtEmit' = <<>>
  /\ random' \in RandomDraws(r.code)
  /\ UNCHANGED result

HandleFileChanged(manipulationThrows) ==
  /\ pc = "changed"
  /\ UNCHANGED <<instrumenterVars, watcherVars, hostVars, historyVars, clientVars>>
  /\ LET r == instrument(source, manipulationThrows)
     IN /\ instrumentResult' = r
        /\ IF ~r.success THEN InstrumentationFailed(r) ELSE StartExecution(r)
  /\ UNCHANGED <<source, runs, clients, sockState, lastCompleted, now>>

\* execute() returns from its catch block and the handler reports the fault
ExecuteFaulted(message) ==
  LET r == faultResult(message, now - vmStart)
  IN /\ result' = r
     /\ broadcastError(message, r.trace)
     /\ calls' = Append(calls, [op |-> "broadcastError",
                                message |-> TraceErrorMessage(message, r.trace)])
     /\ pc' = "idle"
     /\ UNCHANGED <<source, instrumentResult, runs, clients, sockState,
                    lastCompleted, now, code, traceStart, vmStart, random>>

\* the catch block of execute() throws: the exception leaves execute() and
\* the handler, and the watcher's emit('file:changed') catches it
ExecuteThrew ==
  /\ result' = [returned |-> FALSE, threw |-> TRUE]
  /\ pc' = "idle"
  /\ UNCHANGED <<source, instrumentResult, calls, runs, serverVars, now,
                 code, traceStart, vmStart, random>>

\* the script is compiled before it runs
VmCompile ==
  /\ pc = "running" /\ ip = 0
  /\ UNCHANGED <<instrumenterVars, watcherVars, hostVars, historyVars, clientVars>>
  /\ IF CompileError(code)
     THEN /\ ExecuteFaulted("SyntaxError")
          /\ UNCHANGED <<ip, bindings, heap, events, eventId, heapAtEmit>>
     ELSE /\ ip' = 1
          /\ UNCHANGED <<handlerVars, serverVars, now, code, bindings, heap,
                         events, eventId, traceStart, vmStart, heapAtEmit,
                         random>>

\* the vm runs the next statement
VmStep ==
  /\ pc = "running" /\ ip \in 1..Len(code)
  /\ UNCHANGED <<instrumenterVars, watcherVars, historyVars, clientVars>>
  /\ code[ip].s # "spin"
  /\ ~TimedOut
  /\ LET st == ExecStmt(code[ip], Context, now - traceStart)
     IN /\ bindings' = st.bindings
        /\ heap' = st.heap
        /\ events' = st.events
        /\ eventId' = st.eventId
        /\ heapAtEmit' = heapAtEmit \o
             [i \in 1..(Len(st.events) - Len(events)) |-> ArraysOf(st)]
        /\ hostConsole' = IF code[ip].s = "log" THEN hostConsole + 1 ELSE hostConsole
        /\ IF st.thrown
           THEN /\ LET m == ErrorMessage(IF code[ip].s = "throw"
                                          THEN code[ip].value ELSE "error")
                   IN IF m.threw THEN ExecuteThrew
                      ELSE ExecuteFaulted(m.message)
                /\ UNCHANGED ip
           ELSE /\ ip' = ip + 1
                /\ UNCHANGED <<handlerVars, serverVars, now, code, traceStart, vmStart,
                               random>>

\* time passes while the script runs; the clock of the model stops at the
\* deadline, no later time is ever read
VmTick ==
  /\ pc = "running" /\ ip \in 1..Len(code)
  /\ UNCHANGED <<instrumenterVars, watcherVars, hostVars, historyVars, clientVars>>
  /\ now - vmStart < DefaultTimeout
  /\ now' = now + ClockStep
  /\ UNCHANGED <<handlerVars, sandboxVars, serverVars>>

\* the watchdog aborts the script
VmTimeout ==
  /\ pc = "running" /\ ip \in 1..Len(code)
  /\ UNCHANGED <<instrumenterVars, watcherVars, hostVars, historyVars, clientVars>>
  /\ TimedOut
  /\ ExecuteFaulted("Script execution timed out")
  /\ UNCHANGED <<ip, bindings, heap, events, eventId, heapAtEmit>>

\* the script ran to its end: execute() returns the trace and the handler
\* broadcasts it
VmFinish ==
  /\ pc = "running" /\ ip = Len(code) + 1
  /\ UNCHANGED <<instrumenterVars, watcherVars, hostVars, historyVars, clientVars>>
  /\ LET r == successResult(events, now - vmStart)
     IN /\ result' = r
        /\ broadcastTrace(r.trace, r.duration)
        /\ calls' = Append(calls, [op |-> "broadcastTrace",
                                   message |-> TraceCompleteMessage(r.trace, r.duration)])
        /\ lastCompleted' = [some |-> TRUE, trace |-> r.trace]
  /\ pc' = "idle"
  /\ UNCHANGED <<source, instrumentResult, runs, clients, sockState, now, sandboxVars>>

(***************************************************************************)
(* Spec: one file:changed event with any source text of up to MaxLen       *)
(* statements, handled to its end.                                         *)
(***************************************************************************)
InitCommon ==
  /\ instrumentResult = NoResult
  /\ result = NoResult
  /\ calls = <<>>
  /\ code = <<>>
  /\ ip = 0
  /\ bindings = EmptyBindings
  /\ heap = EmptyHeap
  /\ events = <<>>
  /\ eventId = 0
  /\ traceStart = 0
  /\ vmStart = 0
  /\ now = 0
  /\ clients = {}
  /\ currentTrace = <<>>
  /\ outbox = [c \in Sockets |-> <<>>]
  /\ sockState = [c \in Sockets |-> "new"]
  /\ lastCompleted = [some |-> FALSE]
  /\ project = EmptyProject
  /\ lastInstrument = [calls |-> 0]
  /\ debounceTimers = [f \in WatchPaths |-> NoTimer]
  /\ timers = {}
  /\ reading = [f \in WatchPaths |-> <<>>]
  /\ lastNotified = [f \in WatchPaths |-> Never]
  /\ bursts = [f \in WatchPaths |-> 0]
  /\ notifications = [f \in WatchPaths |-> 0]
  /\ watchEvents = <<>>
  /\ heapAtEmit = <<>>
  /\ random = 0
  /\ hostConsole = 0
  /\ previousRun = [some |-> FALSE]
  /\ vizEvents = <<>>
  /\ vizError = NoError
  /\ vizIndex = 0
  /\ received = 0
  /\ lastMessage = [type |-> "none"]
  /\ isPlaying = FALSE
  /\ playIntervalRef = NoInterval
  /\ connected = FALSE
  /\ wsState = "connecting"
  /\ watcher = "open"
  /\ watchCalls = <<>>

Init ==
  /\ \E p \in ProgramsUpTo(MaxLen) : source = TextOf(p)
  /\ pc = "changed"
  /\ runs = 1
  /\ InitCommon

Next ==
  \/ \E manipulationThrows \in BOOLEAN : HandleFileChanged(manipulationThrows)
  \/ VmCompile
  \/ VmStep
  \/ VmTick
  \/ VmTimeout
  \/ VmFinish

Spec == Init /\ [][Next]_vars

(***************************************************************************)
(* PipeSpec: the pipeline with its server: up to MaxRuns file:changed      *)
(* events, sockets connecting and closing between them.                    *)
(***************************************************************************)
PipeSources == {
  <<1>>,        \* const a = [2, 1];                        completes, 1 event
  <<4>>,        \* let x = 0;                               completes, no event
  <<1, 11>>,    \* const a = [2, 1]; [a[0], a[1]] = [a[1], a[0]];
  <<1, 15>>,    \* const a = [2, 1]; throw new Error();     faults after 1 event
  <<17, 1>>,    \* unparsable text; const a = [2, 1];
  <<16>>,       \* while (true) {}                          times out
  <<19>>,       \* throw Object.create(null);
  <<1, 20>>     \* const a = [2, 1]; a[0] = Math.random();
}

PipeInit ==
  /\ source = <<>>
  /\ pc = "idle"
  /\ runs = 0
  /\ InitCommon

PipeNext ==
  \/ \E p \in PipeSources : FileChanged(TextOf(p))
  \/ \E c \in Sockets : handleConnection(c)
  \/ \E c \in Sockets : socketClose(c)
  \/ \E manipulationThrows \in BOOLEAN : HandleFileChanged(manipulationThrows)
  \/ VmCompile
  \/ VmStep
  \/ VmTick
  \/ VmTimeout
  \/ VmFinish

PipeSpec == PipeInit /\ [][PipeNext]_vars

(***************************************************************************)
(* LiveSpec: Spec over source texts of up to LiveLen statements, with the  *)
(* scheduling the vm gives once execute() has entered it: time passes,     *)
(* the watchdog fires when due, and a compile error or the end of the      *)
(* script returns.  Nothing is assumed about how fast a statement runs:    *)
(* VmStep is under no fairness.                                            *)
(***************************************************************************)
LiveInit ==
  /\ \E p \in ProgramsUpTo(LiveLen) : source = TextOf(p)
  /\ pc = "changed"
  /\ runs = 1
  /\ InitCommon

LiveSpec ==
  /\ LiveInit /\ [][Next]_vars
  /\ WF_vars(VmCompile) /\ WF_vars(VmTick)
  /\ WF_vars(VmTimeout) /\ WF_vars(VmFinish)

(***************************************************************************)
(* InstrSpec: up to MaxInstrCalls calls of instrument() on one             *)
(* CodeInstrumenter instance, with any texts of up to InstrLen statements  *)
(* and any file paths.                                                     *)
(***************************************************************************)
InstrInit ==
  /\ source = <<>>
  /\ pc = "idle"
  /\ runs = 0
  /\ InitCommon

InstrNext ==
  \E p \in ProgramsUpTo(InstrLen), filePath \in FilePaths, manipulationThrows \in BOOLEAN :
    InstrumenterCall(TextOf(p), filePath, manipulationThrows)

InstrSpec == InstrInit /\ [][InstrNext]_vars

(***************************************************************************)
(* WatchSpec: the watcher under add/change notifications for WatchPaths,   *)
(* followed up to WatchHorizon.                                            *)
(***************************************************************************)
WatchInit ==
  /\ source = <<>>
  /\ pc = "idle"
  /\ runs = 0
  /\ InitCommon

WatchNext ==
  \/ \E filePath \in WatchPaths : handleFileChange(filePath)
  \/ \E timer \in timers : debounceTimerFires(timer)
  \/ \E filePath \in WatchPaths, readFails \in BOOLEAN : readAndEmitFile(filePath, readFails)
  \/ WatchTick

WatchSpec == WatchInit /\ [][WatchNext]_vars

(***************************************************************************)
(* ClientSpec: one visualizer page: its socket, up to MaxMessages server   *)
(* messages, and the playback buttons.                                     *)
(***************************************************************************)
ClientInit ==
  /\ source = <<>>
  /\ pc = "idle"
  /\ runs = 0
  /\ InitCommon

ClientNext ==
  \/ onopen
  \/ \E message \in ServerMessages : onmessage(message)
  \/ onerror
  \/ onclose
  \/ play
  \/ playIntervalFires
  \/ pause
  \/ reset

ClientSpec == ClientInit /\ [][ClientNext]_vars

(***************************************************************************)
(* WatcherLifeSpec: WatchSpec with stop() and up to MaxWatchCalls further  *)
(* watch() calls.                                                          *)
(***************************************************************************)
WatcherLifeInit ==
  /\ source = <<>>
  /\ pc = "idle"
  /\ runs = 0
  /\ InitCommon

WatcherLifeNext ==
  \/ \E filePath \in WatchPaths : handleFileChange(filePath)
  \/ \E timer \in timers : debounceTimerFires(timer)
  \/ \E filePath \in WatchPaths, readFails \in BOOLEAN : readAndEmitFile(filePath, readFails)
  \/ WatchTick
  \/ watch
  \/ stop
  \/ stopCompletes

WatcherLifeSpec == WatcherLifeInit /\ [][WatcherLifeNext]_vars

(***************************************************************************)
(* ServerSpec: the server under socket events and up to MaxBroadcasts      *)
(* broadcasts of its three kinds.                                          *)
(***************************************************************************)
ServerTraces == {ClientTrace(<<1>>), ClientTrace(<<1, 2>>)}

serverBroadcastTraceStart ==
  /\ pc = "idle" /\ Len(calls) < MaxBroadcasts
  /\ broadcastTraceStart
  /\ calls' = Append(calls, [op |-> "broadcastTraceStart", message |-> TraceStartMessage])
  /\ UNCHANGED <<source, pc, instrumentResult, result, runs, clients, sockState,
                 lastCompleted, sandboxVars, now>>
  /\ UNCHANGED <<instrumenterVars, watcherVars, hostVars, historyVars, clientVars>>

serverBroadcastTrace(evs) ==
  /\ pc = "idle" /\ Len(calls) < MaxBroadcasts
  /\ broadcastTrace(evs, 0)
  /\ calls' = Append(calls, [op |-> "broadcastTrace",
                             message |-> TraceCompleteMessage(evs, 0)])
  /\ UNCHANGED <<source, pc, instrumentResult, result, runs, clients, sockState,
                 lastCompleted, sandboxVars, now>>
  /\ UNCHANGED <<instrumenterVars, watcherVars, hostVars, historyVars, clientVars>>

serverBroadcastError(evs) ==
  /\ pc = "idle" /\ Len(calls) < MaxBroadcasts
  /\ broadcastError("boom", evs)
  /\ calls' = Append(calls, [op |-> "broadcastError",
                             message |-> TraceErrorMessage("boom", evs)])
  /\ UNCHANGED <<source, pc, instrumentResult, result, runs, clients, sockState,
                 lastCompleted, sandboxVars, now>>
  /\ UNCHANGED <<instrumenterVars, watcherVars, hostVars, historyVars, clientVars>>

ServerInit ==
  /\ source = <<>>
  /\ pc = "idle"
  /\ runs = 0
  /\ InitCommon

ServerNext ==
  \/ \E c \in Sockets : handleConnection(c)
  \/ \E c \in Sockets : socketClosing(c)
  \/ \E c \in Sockets : socketError(c)
  \/ \E c \in Sockets : socketClose(c)
  \/ serverBroadcastTraceStart
  \/ \E evs \in ServerTraces : serverBroadcastTrace(evs)
  \/ \E evs \in ServerTraces \cup {<<>>} : serverBroadcastError(evs)

ServerSpec == ServerInit /\ [][ServerNext]_vars

(***************************************************************************)
(* Properties.                                                             *)
(***************************************************************************)
Returned == pc = "idle" /\ result.returned
Faulted == Returned /\ ~result.success
Instrumented == pc # "changed" /\ "success" \in DOMAIN instrumentResult

\* the same text, statement for statement: kinds are compared first
SameText(a, b) ==
  /\ Len(a) = Len(b)
  /\ \A i \in 1..Len(a) : a[i].s = b[i].s /\ a[i] = b[i]

\* the payloads of a trace, timestamps aside
Payloads(evs) == [i \in 1..Len(evs) |-> [type |-> evs[i].type, data |-> evs[i].data]]

\* the exact reciprocal pattern [a[i], a[j]] = [a[j], a[i]]
IsReciprocalSwap(stmt) ==
  /\ IsSwapShape(stmt)
  /\ stmt.lhs[1].arr = stmt.lhs[2].arr
  /\ stmt.rhs = <<stmt.lhs[2], stmt.lhs[1]>>

IsInsertedCall(stmt) ==
  stmt.s = "call" /\ stmt.fn \in {"declare", "assign", "arrayWrite"}

\* C1: when the instrumented code faults (throws or is aborted by the
\* timeout) after emitting n >= 0 events, the result has success = false and
\* its trace holds exactly those n events, in emission order.
C1_FaultKeepsEmittedEvents ==
  Faulted => result.trace = events

\* C2: after an indexed element assignment name[index] = valueExpr has run
\* together with its inserted call, the last event is an array:write for
\* that index whose value is the value the assignment stored.
C2_ArrayWriteRecordsStoredValue ==
  (/\ pc = "running" /\ ip >= 3
   /\ code[ip - 1].s = "call" /\ code[ip - 1].fn = "arrayWrite"
   /\ code[ip - 2].s = "assign")
  => /\ Len(events) >= 1
     /\ LET e == events[Len(events)]
            target == code[ip - 2].lhs
        IN /\ e.type = "array:write"
           /\ e.data.name = target.arr
           /\ e.data.index = target.idx
           /\ e.data.value = heap[bindings[target.arr].r][target.idx + 1]

\* C3: in the event list of a run, events[i].id = i (counting from 0): ids
\* start at 0 and grow by exactly 1 in emission order.
C3_MonotonicIds ==
  \A i \in 1..Len(events) : events[i].id = i - 1

C3_Witness ==
  /\ Len(events) >= 4
  /\ \E i, j, k \in 1..Len(events) :
       /\ events[i].type = "variable:declare"
       /\ events[j].type = "array:write"
       /\ events[k].type = "custom"

\* C4: the value of an event recorded through declare, assign or arrayWrite
\* is a snapshot: what a reader sees in an already recorded event is never
\* changed by a later step of the running program.
C4_CloneIsolation ==
  [][\A i \in 1..Len(events) :
       (i <= Len(events') /\ "value" \in DOMAIN events[i].data)
       => View(events'[i].data.value, heap') = View(events[i].data.value, heap)]_vars

\* C5: right after a two-element swap [a[i], a[j]] = [a[j], a[i]] and its
\* inserted calls have run, the last three events are array:write for i with
\* the post-swap a[i], array:write for j with the post-swap a[j], and
\* variable:assign for a with the whole post-swap array; and the trace of
\* const a=[2,1]; [a[0],a[1]]=[a[1],a[0]]; is declare a=[2,1], write(0,1),
\* write(1,2), assign a=[1,2].
C5_SwapTrace ==
  /\ (pc = "running" /\ ip >= 5 /\ IsReciprocalSwap(code[ip - 4]))
     => /\ Len(events) >= 3
        /\ LET a == code[ip - 4].lhs[1].arr
               i == code[ip - 4].lhs[1].idx
               j == code[ip - 4].lhs[2].idx
               n == Len(events)
           IN /\ Payloads(SubSeq(events, n - 2, n)) =
                   << [type |-> "array:write",
                       data |-> [name |-> a, index |-> i, value |-> heap[a][i + 1]]],
                      [type |-> "array:write",
                       data |-> [name |-> a, index |-> j, value |-> heap[a][j + 1]]],
                      [type |-> "variable:assign",
                       data |-> [name |-> a, value |-> View(RefV(a), heap)]] >>
  /\ (Returned /\ result.success /\ SameText(source, TextOf(<<1, 11>>)))
     => Payloads(result.trace) =
          << [type |-> "variable:declare",
              data |-> [name |-> "a",
                        value |-> [k |-> "arr", elems |-> <<IntV(2), IntV(1)>>]]],
             [type |-> "array:write",
              data |-> [name |-> "a", index |-> 0, value |-> IntV(1)]],
             [type |-> "array:write",
              data |-> [name |-> "a", index |-> 1, value |-> IntV(2)]],
             [type |-> "variable:assign",
              data |-> [name |-> "a",
                        value |-> [k |-> "arr", elems |-> <<IntV(1), IntV(2)>>]]] >>

C5_Witness ==
  /\ Returned /\ result.success /\ SameText(source, TextOf(<<1, 11>>))
  /\ Len(result.trace) = 4

\* C6: a destructuring assignment that is not the exact reciprocal
\* two-element pattern over one collection gets no swap insertion: no
\* array:write or variable:assign call follows it in the transformed text.
C6_OnlyReciprocalSwapInstrumented ==
  (Instrumented /\ instrumentResult.success)
  => LET out == instrumentResult.code
     IN \A k \in 1..Len(out) :
          (out[k].s = "destructure" /\ ~IsReciprocalSwap(out[k]))
          => (k = Len(out) \/ ~IsInsertedCall(out[k + 1]))

\* C7: a consumer that connects is sent a trace:complete message carrying
\* the events of the last run that completed normally, whatever the outcome
\* of the runs after it.
C7_NewClientReplaysLastCompleted ==
  [][\A c \in Sockets :
       (sockState[c] = "new" /\ sockState'[c] = "open" /\ lastCompleted.some)
       => /\ Len(outbox'[c]) = 1
          /\ outbox'[c][1].type = "trace:complete"
          /\ outbox'[c][1].events = lastCompleted.trace]_vars

\* C8: when instrument() reports failure, the handler never calls execute(),
\* broadcasts no trace:start, and reports one trace:error whose partial
\* trace is empty.
C8_TransformFailureIsolation ==
  (Instrumented /\ ~instrumentResult.success)
  => /\ pc = "idle"
     /\ result = NoResult
     /\ code = <<>> /\ events = <<>>
     /\ \A i \in 1..Len(calls) : calls[i].op \notin {"execute", "broadcastTraceStart"}
     /\ Cardinality({i \in 1..Len(calls) : calls[i].op = "broadcastError"}) = 1
     /\ \A i \in 1..Len(calls) :
          calls[i].op = "broadcastError"
          => /\ calls[i].message.type = "trace:error"
             /\ calls[i].message.partialTrace = <<>>

C8_Witness ==
  /\ Instrumented /\ ~instrumentResult.success
  /\ Len(calls) = 2
  /\ collectAll(source) # <<>>

\* C9: execute() always terminates; a script that never ends by itself is
\* aborted once the timeout (5000 ms) has elapsed, and execute() then
\* returns success = false.
C9_ExecuteTerminates ==
  /\ [](pc = "running" => <>(pc = "idle"))
  /\ []((Returned /\ ip \in 1..Len(code) /\ code[ip].s = "spin")
        => (~result.success /\ now - vmStart >= DefaultTimeout))

C9_Witness ==
  /\ Faulted
  /\ ip \in 1..Len(code) /\ code[ip].s = "spin"
  /\ result.error.message = "Script execution timed out"
  /\ now - vmStart >= DefaultTimeout

\* a construct the transform is said to recognize: an array-literal
\* declaration, a two-element reciprocal swap, an indexed element assignment
IsRecognizedConstruct(stmt) ==
  \/ stmt.s = "var" /\ \E j \in 1..Len(stmt.decls) : stmt.decls[j].init.i = "array"
  \/ IsReciprocalSwap(stmt)
  \/ stmt.s = "assign" /\ stmt.lhs.e = "elem"

\* C10: transforming a source text that holds no recognized construct
\* succeeds and returns the text unchanged.
C10_AdditiveTransform ==
  (Instrumented /\ \A i \in 1..Len(source) : ~IsRecognizedConstruct(source[i]))
  => /\ instrumentResult.success
     /\ instrumentResult.code = source

\* the ids, kinds and payloads of a trace, timestamps aside
Untimed(evs) ==
  [i \in 1..Len(evs) |-> [id |-> evs[i].id, type |-> evs[i].type, data |-> evs[i].data]]

C12_NonDecreasingTimestamps ==
  /\ \A i \in 1..Len(events) - 1 : events[i].timestamp <= events[i + 1].timestamp
  /\ \A i \in 1..Len(events) :
       events[i].timestamp >= 0 /\ events[i].timestamp <= now - traceStart
  /\ (Returned /\ result.success)
     => \A i \in 1..Len(result.trace) - 1 :
          result.trace[i].timestamp <= result.trace[i + 1].timestamp

\* a completed run whose events were emitted at different times
C12_Witness ==
  /\ Returned /\ result.success
  /\ \E i \in 1..Len(result.trace) - 1 :
       result.trace[i].timestamp < result.trace[i + 1].timestamp

\* C13: in every result of execute() the error descriptor is present
\* exactly when success is false.
C13_ErrorIffNotSuccess ==
  result.returned => (("error" \in DOMAIN result) <=> ~result.success)

\* a run that threw and returned its error
C13_Witness ==
  /\ Faulted
  /\ "error" \in DOMAIN result
  /\ result.error.message = "Error"

\* C14: in every faulted result of execute() the error's eventIndex equals
\* the length of the trace of the same result.
C14_EventIndexIsTraceLength ==
  Faulted => result.error.eventIndex = Len(result.trace)

\* a run that faulted after it had emitted events
C14_Witness ==
  /\ Faulted
  /\ Len(events) >= 1
  /\ result.error.eventIndex = Len(result.trace)

\* the handler called execute()
ExecuteCalled == \E i \in 1..Len(calls) : calls[i].op = "execute"

\* C15: instrument() and execute() never throw to their caller: once the
\* handler is past instrument() it holds a result with a success flag, and
\* once it is past execute() it holds a result with a success flag, a fault
\* inside the script showing only as success = false.
C15_NeverThrows ==
  /\ pc # "changed" => "success" \in DOMAIN instrumentResult
  /\ (pc = "idle" /\ ExecuteCalled)
     => /\ result.returned
        /\ "success" \in DOMAIN result

\* the calls of one kind in the handler's log
CallsOf(ops) == SelectSeq(calls, LAMBDA c : c.op \in ops)

\* C16: one file:changed event causes exactly one instrument() call, then at
\* most one execute() call (none when instrument() failed), and the handler
\* ends with exactly one terminal broadcast, trace:complete or trace:error.
C16_OneInvocationOneTerminal ==
  pc = "idle"
  => /\ Len(CallsOf({"instrument"})) = 1
     /\ calls[1].op = "instrument"
     /\ Len(CallsOf({"execute"})) <= 1
     /\ ~instrumentResult.success => CallsOf({"execute"}) = <<>>
     /\ Len(CallsOf({"broadcastTrace", "broadcastError"})) = 1
     /\ calls[Len(calls)].op \in {"broadcastTrace", "broadcastError"}

\* the broadcasts of the handler's log, in order
Broadcasts(log) ==
  LET bs == SelectSeq(log, LAMBDA c :
              c.op \in {"broadcastTraceStart", "broadcastTrace", "broadcastError"})
  IN [i \in 1..Len(bs) |-> bs[i].message.type]

\* C17: a run's trace:start is followed by exactly one trace:complete or
\* trace:error before the next invocation begins, no trace:complete comes
\* without a trace:start before it, and an invocation broadcasts one of:
\* trace:error alone; trace:start then trace:complete; trace:start then
\* trace:error.
C17_StartThenOneTerminal ==
  [][/\ Broadcasts(calls') \in {<<>>, <<"trace:error">>, <<"trace:start">>,
                                 <<"trace:start", "trace:complete">>,
                                 <<"trace:start", "trace:error">>}
     /\ (pc = "idle" /\ pc' = "changed")
        => Broadcasts(calls) # <<"trace:start">>]_vars

\* C18: on one CodeInstrumenter instance the result of instrument(s) is the
\* result a fresh instance gives for s, whatever texts and file paths the
\* instance was called with before and whether those calls succeeded.
C18_InstrumentIsPure ==
  lastInstrument.calls > 0
  => LET l == lastInstrument
     IN /\ l.result = CodeInstrumenterInstrument(EmptyProject, l.sourceCode,
                                                 l.filePath, l.manipulationThrows).result
        /\ l.result = instrument(l.sourceCode, l.manipulationThrows)

\* a call that transformed its text, on a path the instance already held a
\* different text for
C18_Witness ==
  /\ lastInstrument.calls >= 2
  /\ LET l == lastInstrument
     IN /\ l.before[l.filePath].exists
        /\ l.before[l.filePath].text # l.sourceCode
        /\ l.result.success
        /\ l.result.code # l.sourceCode

\* the events of some types the watcher emitted for a path
EmittedFor(filePath, types) ==
  SelectSeq(watchEvents, LAMBDA e : e.filePath = filePath /\ e.type \in types)

\* nothing is pending for the path: no timer set, no read in flight
Settled(filePath) == ~debounceTimers[filePath].set /\ reading[filePath] = <<>>

\* every emitted event came at least debounceMs after the last notification
\* its timer answered
EmittedAfterDebounce ==
  \A i \in 1..Len(watchEvents) :
    watchEvents[i].at - watchEvents[i].notified >= DebounceMs

C20_SemanticsPreserved ==
  /\ (Instrumented /\ instrumentResult.success)
     => LET original == RunScript(source)
            instrumented == RunScript(instrumentResult.code)
        IN /\ instrumented.outcome = original.outcome
           /\ instrumented.st.bindings = original.st.bindings
           /\ instrumented.st.heap = original.st.heap
  /\ (Returned /\ result.success)
     => LET original == RunScript(source)
        IN /\ original.outcome = "completed"
           /\ bindings = original.st.bindings
           /\ heap = original.st.heap

\* C21: the array the visualizer derives at step k of a completed run's
\* trace equals the contents the array named by event k had in the program
\* when event k was emitted.
C21_ReplayReconstructsArray ==
  (Returned /\ result.success)
  => LET shown == JsonEvents(result.trace, heap)
     IN \A k \in 1..Len(shown) :
          (/\ shown[k].type \in {"variable:declare", "variable:assign", "array:write"}
           /\ shown[k].data.name \in ArrNames)
          => getArrayFromEvents(shown, k - 1) =
               JsonValue(heapAtEmit[k][shown[k].data.name]).elems

\* C22: two runs of execute() on the same instrumented text return the
\* same success flag and the same events up to timestamps (ids, kinds and
\* payloads in the same order).
C22_DeterministicRecord ==
  (Returned /\ previousRun.some /\ previousRun.code = code)
  => /\ result.success = previousRun.success
     /\ Untimed(result.trace) = Untimed(previousRun.trace)

\* C23: when instrument() returns success = false, the code it returns is
\* the original source text, unchanged, even when insertions were collected
\* for the text and could have been applied before the failure.
C23_FailureReturnsOriginal ==
  (Instrumented /\ ~instrumentResult.success) => instrumentResult.code = source

C23_Witness ==
  /\ Instrumented /\ ~instrumentResult.success
  /\ Len(collectAll(source)) >= 2
  /\ transformSourceFile(source) # source
  /\ instrumentResult.code = source

\* C24: the instrumented code has no host-side effect: no step of a running
\* script changes state of the host process outside its context (here the
\* host's console stream).
C24_NoHostSideEffect ==
  [][pc = "running" => hostConsole' = hostConsole]_vars

\* the event kinds the visualizer handles, and the message types
HandledKinds == {"variable:declare", "variable:assign", "array:write", "compare"}
HandledMessageTypes == {"trace:start", "trace:complete", "trace:error"}

\* C25: an event of a kind the visualizer does not handle is skipped: the
\* array derived at its step is the one derived at the step before (none at
\* the first step) and it highlights no index; and a server message of a
\* type other than trace:start, trace:complete and trace:error leaves the
\* page's events, error and currentEventIndex unchanged.
C25_UnknownKindsSkipped ==
  /\ [](\A k \in 0..(Len(vizEvents) - 1) :
          vizEvents[k + 1].type \notin HandledKinds
          => /\ getArrayFromEvents(vizEvents, k) =
                  (IF k = 0 THEN <<>> ELSE getArrayFromEvents(vizEvents, k - 1))
             /\ \A index \in 0..MaxLen : ~isIndexActive(EventAt(vizEvents, k), index))
  /\ [][(received' = received + 1 /\ lastMessage'.type \notin HandledMessageTypes)
        => UNCHANGED <<vizEvents, vizError, vizIndex>>]_vars

C25_Witness ==
  /\ lastMessage.type \notin HandledMessageTypes /\ received >= 2
  /\ vizError # NoError
  /\ vizIndex >= 1 /\ vizIndex < Len(vizEvents)
  /\ vizEvents[vizIndex + 1].type \notin HandledKinds
  /\ getArrayFromEvents(vizEvents, vizIndex) # <<>>

\* where the statements of the source stand in the transformed text
OriginalPositions(out) ==
  SelectSeq([j \in 1..Len(out) |-> j], LAMBDA j : ~IsInsertedCall(out[j]))

\* the calls that stand between the i-th statement of the source and the next
InsertedAfter(out, i) ==
  LET pos == OriginalPositions(out)
  IN SubSeq(out, pos[i] + 1, IF i < Len(pos) THEN pos[i + 1] - 1 ELSE Len(out))

IsInfix(a, b) ==
  \E off \in 0..(Len(b) - Len(a)) : SubSeq(b, off + 1, off + Len(a)) = a

TransformationsAt(src, i) == SelectSeq(collectAll(src), LAMBDA t : t.statement = i)

\* C26: every collected insertion is applied: in the transformed text the
\* calls of each collected insertion stand right after its anchor statement,
\* also when several insertions have the same anchor.
C26_EveryInsertionApplied ==
  (Instrumented /\ instrumentResult.success)
  => \A n \in 1..Len(collectAll(source)) :
       LET t == collectAll(source)[n]
       IN IsInfix(Tail(t.newText), InsertedAfter(instrumentResult.code, t.statement))

\* C27: when several recognized constructs have the same anchor statement,
\* exactly one insertion is applied to it, the first collected in the order
\* declaration, swap, indexed assignment, and the statement stands once in
\* the transformed text.
C27_OneInsertionPerAnchor ==
  (Instrumented /\ instrumentResult.success)
  => /\ Len(OriginalPositions(instrumentResult.code)) = Len(source)
     /\ \A i \in 1..Len(source) :
          /\ instrumentResult.code[OriginalPositions(instrumentResult.code)[i]] = source[i]
          /\ LET ts == TransformationsAt(source, i)
             IN InsertedAfter(instrumentResult.code, i) =
                  (IF ts = <<>> THEN <<>> ELSE Tail(ts[1].newText))

C27_Witness ==
  /\ Instrumented /\ instrumentResult.success
  /\ \E i, j \in 1..Len(source) :
       /\ Len(TransformationsAt(source, i)) = 2
       /\ source[i].s = "var"
       /\ Len(TransformationsAt(source, j)) = 2
       /\ IsSwapShape(source[j])
       /\ TransformationsAt(source, j)[1].newText = SwapNewText(source[j])
       /\ TransformationsAt(source, j)[2].newText # SwapNewText(source[j])
       /\ InsertedAfter(instrumentResult.code, j) = Tail(SwapNewText(source[j]))

\* the array declarators of a text, in order
ArrayDeclarators(src) ==
  Flatten([i \in 1..Len(src) |->
    IF src[i].s = "var"
    THEN SelectSeq(src[i].decls, LAMBDA d : d.init.i = "array")
    ELSE <<>>])

\* C28: every declarator with an array-literal initializer is recorded: the
\* variable:declare events of a completed run are, in order, one per array
\* declarator of the text, with its name and a snapshot of the array it was
\* bound to, also when one statement declares several arrays.
C28_EveryArrayDeclaratorDeclared ==
  (Returned /\ result.success)
  => LET ds == ArrayDeclarators(source)
         es == SelectSeq(result.trace, LAMBDA ev : ev.type = "variable:declare")
     IN /\ Len(es) = Len(ds)
        /\ \A n \in 1..Len(ds) :
             /\ es[n].data.name = ds[n].name
             /\ es[n].data.value =
                  [k |-> "arr",
                   elems |-> [j \in 1..Len(ds[n].init.elems) |-> IntV(ds[n].init.elems[j])]]

\* C29: the transform is additive: the returned text holds every statement
\* of the source, unmodified and in order, and taking the added __trace
\* calls out of it gives back the source.
C29_TransformIsAdditive ==
  Instrumented
  => SelectSeq(instrumentResult.code, LAMBDA stmt : ~IsInsertedCall(stmt)) = source

C29_Witness ==
  /\ Instrumented /\ instrumentResult.success
  /\ Len(source) = MaxLen
  /\ \A i \in 1..Len(source) : TransformationsAt(source, i) # <<>>
  /\ \E i \in 1..Len(source) : source[i].s = "assign"
  /\ Len(instrumentResult.code) > 2 * Len(source)
  /\ SelectSeq(instrumentResult.code, LAMBDA stmt : ~IsInsertedCall(stmt)) = source

IsPrefix(a, b) == Len(a) <= Len(b) /\ SubSeq(b, 1, Len(a)) = a

\* C30: the event list of a run is append-only: while the script runs, every
\* step leaves the recorded events as they are and adds at most one event at
\* the end, and getTrace hands out the list without changing it.
C30_EventsAppendOnly ==
  [][pc = "running"
     => /\ IsPrefix(events, events')
        /\ Len(events') <= Len(events) + 1
        /\ (pc' = "idle" /\ result'.returned /\ result'.success)
             => (events' = events /\ result'.trace = events)]_vars

C30_Witness ==
  /\ Returned /\ result.success
  /\ Len(events) >= 2 * MaxLen
  /\ result.trace = events
  /\ \A k \in 1..Len(events) : events[k].id = k - 1

\* C31: the client set holds exactly the sockets that connected and have
\* neither closed nor errored, and a broadcast appends its message once to
\* the outbox of every socket of the set that is open and to no other.
C31_BroadcastReachesOpenClients ==
  /\ [](clients = {c \in Sockets : sockState[c] \in {"open", "closing"}})
  /\ [][Len(calls') = Len(calls) + 1
        => \A c \in Sockets :
             outbox'[c] = IF c \in clients /\ sockState[c] = "open"
                          THEN Append(outbox[c], calls'[Len(calls')].message)
                          ELSE outbox[c]]_vars

C31_Witness ==
  /\ Len(calls) = MaxBroadcasts
  /\ \E c, d \in Sockets :
       /\ sockState[c] = "closing" /\ c \in clients
       /\ sockState[d] = "open" /\ d \in clients
       /\ Len(outbox[d]) = Len(outbox[c]) + 1
       /\ outbox[d][Len(outbox[d])] = calls[Len(calls)].message

\* C32: when the read a fired debounce timer started fails, the watcher
\* emits exactly one event for that firing, a file:error for the path, and
\* no file:changed; and it stays usable: its timers, its map and its
\* chokidar watcher are as they were.
C32_ReadFailureEmitsOneError ==
  /\ [](\A i \in 1..Len(watchEvents) :
          watchEvents[i].readFailed => watchEvents[i].type = "file:error")
  /\ [][\A f \in WatchPaths :
          Len(reading'[f]) < Len(reading[f])
          => /\ Len(watchEvents') = Len(watchEvents) + 1
             /\ SubSeq(watchEvents', 1, Len(watchEvents)) = watchEvents
             /\ watchEvents'[Len(watchEvents')].filePath = f
             /\ UNCHANGED <<debounceTimers, timers, watcher>>]_vars

\* a failed read answered by file:error, and a later change of the same path
\* answered by file:changed
C32_Witness ==
  \E i, j \in 1..Len(watchEvents) :
    /\ i < j
    /\ watchEvents[i].filePath = watchEvents[j].filePath
    /\ watchEvents[i].readFailed /\ watchEvents[i].type = "file:error"
    /\ ~watchEvents[j].readFailed /\ watchEvents[j].type = "file:changed"
    /\ watchEvents[j].notified >= watchEvents[i].at

\* C34: once stop() has completed (and until watch() is called again) the
\* watcher emits no file:changed event.
C34_NoEventAfterStop ==
  [][watcher = "null"
     => \A i \in (Len(watchEvents) + 1)..Len(watchEvents') :
          watchEvents'[i].type # "file:changed"]_vars

\* C35: debounceTimers holds at most one entry per path, every entry is a
\* pending timer of its path (not fired, not cancelled), and handling a
\* notification for one path leaves the timer, the entry and the reads of
\* every other path as they were.
C35_DebouncePerPath ==
  /\ [](\A f \in WatchPaths :
          /\ debounceTimers[f].set
             => (debounceTimers[f] \in timers /\ debounceTimers[f].filePath = f)
          /\ Cardinality({t \in timers : t.filePath = f}) <= 1)
  /\ [][\A f \in WatchPaths :
          notifications'[f] = notifications[f] + 1
          => \A g \in WatchPaths \ {f} :
               /\ debounceTimers'[g] = debounceTimers[g]
               /\ {t \in timers' : t.filePath = g} = {t \in timers : t.filePath = g}
               /\ reading'[g] = reading[g]]_vars

\* both paths pending at once, then one of them fired while the other, notified
\* later, is still pending
C35_Witness ==
  \E f, g \in WatchPaths :
    /\ f # g
    /\ debounceTimers[g].set /\ debounceTimers[g] \in timers
    /\ ~debounceTimers[f].set /\ reading[f] # <<>>
    /\ notifications[g] >= 2
    /\ lastNotified[f].time < lastNotified[g].time
    /\ lastNotified[g].time < lastNotified[f].time + DebounceMs

\* C36: watch() on a running watcher throws and changes nothing; on a
\* stopped watcher it returns and the watcher runs again.
C36_WatchWhileRunningThrows ==
  [][Len(watchCalls') = Len(watchCalls) + 1
     => /\ UNCHANGED <<debounceTimers, timers, reading, watchEvents>>
        /\ IF watcher # "null"
           THEN watchCalls'[Len(watchCalls')] = "threw" /\ watcher' = watcher
           ELSE watchCalls'[Len(watchCalls')] = "returned" /\ watcher' = "open"]_vars

C36_Witness ==
  /\ watchCalls = <<"threw", "returned">>
  /\ watcher = "open"
  /\ \E f \in WatchPaths : debounceTimers[f].set /\ debounceTimers[f].due > DebounceMs

\* the assignment expressions arr[i] = value of a text that store into name[i]:
\* the element assignment statements and the ones standing as operands
ElementAssignments(src, name, i) ==
  Flatten([k \in 1..Len(src) |->
    IF src[k].s = "assign"
    THEN IF src[k].lhs.e = "elem" /\ src[k].lhs.arr = name /\ src[k].lhs.idx = i
         THEN <<k>> ELSE <<>>
    ELSE IF src[k].s = "destructure"
    THEN [j \in 1..Len(SelectSeq(src[k].rhs,
                   LAMBDA x : x.e = "store" /\ x.arr = name /\ x.idx = i)) |-> k]
    ELSE <<>>])

\* the array:write events the swap rule reports for name[i]
SwapWrites(src, name, i) ==
  Flatten([k \in 1..Len(src) |->
    IF IsSwapShape(src[k]) /\ src[k].lhs[1].arr = name
    THEN (IF src[k].lhs[1].idx = i THEN <<k>> ELSE <<>>)
         \o (IF src[k].lhs[2].idx = i THEN <<k>> ELSE <<>>)
    ELSE <<>>])

WritesRecorded(evs, name, i) ==
  SelectSeq(evs, LAMBDA e : e.type = "array:write" /\ e.data.name = name
                            /\ e.data.index = i)

\* C33: when a text has run to its end, the trace holds, for every array
\* element, one array:write event per element assignment to it that the text
\* executed (besides the two events of each swap) and no other.
C33_WritePerExecutedAssignment ==
  (Returned /\ result.success)
  => \A name \in VarNames : \A i \in 0..2 :
       Len(WritesRecorded(result.trace, name, i))
         = Len(ElementAssignments(source, name, i)) + Len(SwapWrites(source, name, i))

\* C37: currentEventIndex is always a valid position of events: 0 when events
\* is empty, otherwise between 0 and events.length - 1.
C37_IndexWithinEvents ==
  IF Len(vizEvents) = 0 THEN vizIndex = 0
  ELSE vizIndex \in 0..(Len(vizEvents) - 1)

C39_PlaybackRunsToEnd ==
  [][/\ (playIntervalFires /\ playIntervalRef.length = Len(vizEvents))
        => /\ vizIndex <= Len(vizEvents) - 1
           /\ IF vizIndex < Len(vizEvents) - 1
              THEN /\ vizIndex' = vizIndex + 1
                   /\ isPlaying' /\ playIntervalRef'.running
              ELSE /\ vizIndex' = vizIndex
                   /\ ~isPlaying' /\ ~playIntervalRef'.running
     /\ ~playIntervalRef.running => vizIndex' <= vizIndex]_vars

\* a playback of the longest trace that ran from the first event to the last
\* and stopped by itself
C39_Witness ==
  /\ Len(vizEvents) = MaxTraceLen
  /\ playIntervalRef = [isNull |-> FALSE, running |-> FALSE, length |-> MaxTraceLen]
  /\ ~isPlaying
  /\ vizIndex = Len(vizEvents) - 1
  /\ received = 1

\* C40: a step that broadcasts trace:error leaves the retained trace and the
\* client set as they were, so after a transform failure (trace:error alone,
\* no trace:start) a newly connected client is still sent the last completed
\* trace.
C40_ErrorKeepsRetainedTrace ==
  [][(calls' # calls /\ calls' # <<>> /\ calls'[Len(calls')].op = "broadcastError")
     => /\ currentTrace' = currentTrace
        /\ clients' = clients]_vars

\* a transform failure after a completed run, and a client that connected
\* after it and was sent the completed trace
C40_Witness ==
  /\ pc = "idle" /\ runs = 2
  /\ calls = <<[op |-> "instrument"],
              [op |-> "broadcastError",
               message |-> TraceErrorMessage("Instrumentation failed", <<>>)]>>
  /\ Len(currentTrace) > 0
  /\ \E c \in clients :
       /\ sockState[c] = "open"
       /\ outbox[c] = <<TraceCompleteMessage(currentTrace, 0)>>

====
